---- MODULE Spec2Model ----
(***************************************************************************)
(* State-machine model of TagStudio (SQLAlchemy branch):                   *)
(*   - QtDriver navigation history   (qt/ts_qt.py: nav_forward, nav_back)   *)
(*   - thumbnail grid, job queue, Consumer worker threads, shutdown         *)
(*   - Library tag list and its caches (alt_core/library.py)                *)
(* Each handler is one action.  Objects handled by a function are modelled  *)
(* by the attributes that function reads and writes.                        *)
(***************************************************************************)
EXTENDS Integers, Sequences, FiniteSets, TLC

(***************************************************************************)
(* Bounds of the model                                                     *)
(***************************************************************************)
\* number of grid cells (QtDriver.max_results, 500 in the program)
MaxResults == 2
\* number of Consumer threads (os.cpu_count() in the program)
NumWorkers == 2
\* largest value the wall clock reaches
MaxTime == 2
\* longest navigation history explored
MaxNavFrames == 3
\* most render results waiting in the GUI thread's event queue
MaxEvents == 2
\* most tags ever added to the library
MaxTags == 3
\* most Entry rows in the store
MaxEntries == 1
\* number of library root paths the user opens
MaxLibPaths == 6
\* number of update_libs_list calls explored
MaxOpens == 7
\* Tag rows in the store and subtag links among them
MaxDbTags == 4
MaxLinks == 2
\* number of create_collage calls explored
MaxCollages == 1
\* directory scans running at the same time
MaxScans == 2
\* largest value of dir_file_count a scan still counts from
MaxFileCount == 3

\* sys.float_info.max, the timestamp given to loading-placeholder jobs
FloatMax == 2147483647
\* Library._next_tag_id after clear_internal_vars
FirstTagId == 1000
\* ITEMS_LIMIT of update_libs_list
ITEMS_LIMIT == 5
\* time.time() at the start of the run, in seconds since the epoch
EpochBase == 1700000000

(***************************************************************************)
(* Values                                                                  *)
(***************************************************************************)
\* frames (lists of ContentItem = (ItemType, id, path)) offered to the navigation handlers
NavContents == { <<>>,
                 << <<"ENTRY", 1, "a.png">> >>,
                 << <<"ENTRY", 1, "a.png">>, <<"ENTRY", 2, "b.png">> >> }
ThumbContents == { << <<"ENTRY", 1, "a.png">> >> }
\* (frame_content, page_index, page_count) offered to nav_forward
NavInputs == { << <<>>, 0, 0 >>,
               << << <<"ENTRY", 1, "a.png">> >>, 0, 1 >>,
               << << <<"ENTRY", 1, "a.png">>, <<"ENTRY", 2, "b.png">> >>, 1, 2 >> }
ScrollValues == {0, 1}
SearchTexts == {"", "q"}
\* how the clock advances at each time.time() call of one update_thumbs
AllTicks == [1..(MaxResults + 1) -> {0, 1}]
NoTicks == { [k \in 1..(MaxResults + 1) |-> 0] }
\* what calling a job can do
JobOutcomes == {"returns", "RuntimeError", "OtherError"}

Workers == 1..NumWorkers
MARKER_QUIT == [fn |-> "MARKER_QUIT", thumb |-> 0, timestamp |-> 0,
                filepath |-> "", is_loading |-> FALSE, stale |-> FALSE]
NoJob == [fn |-> "none", thumb |-> 0, timestamp |-> 0,
          filepath |-> "", is_loading |-> FALSE, stale |-> FALSE]

VARIABLES
    \* QtDriver navigation
    nav_frames,        \* list of NavigationState
    cur_frame_idx,     \* index into nav_frames, -1 when empty
    scroll_value,      \* main_window.scrollArea.verticalScrollBar().value()
    search_field,      \* main_window.searchField.text()
    pagination,        \* what pagination.update_buttons last showed
    \* thumbnail grid
    item_thumbs,       \* the MaxResults grid cells
    update_cutoff,     \* ItemThumb.update_cutoff
    now,               \* last value returned by time.time()
    thumb_job_queue,   \* the shared FIFO queue
    consumers,         \* per Consumer thread: position and job in hand
    gui_events,        \* emitted `updated` signals not yet delivered
    main_pc,           \* GUI thread: running or inside shutdown()
    joined,            \* number of threads shutdown() has waited for
    \* Library tags
    tags,              \* Library.tags
    next_tag_id,       \* Library._next_tag_id
    tag_id_to_index_map,
    tag_id_to_cluster_map,
    db_entries,        \* the Entry rows of the store
    \* QtDriver search state
    cur_query,         \* query of the last filter_items call
    frame_dict,        \* pages of results cached per query
    \* QtDriver selection
    selected,          \* list of (ItemType, id)
    \* QSettings
    libs_list,         \* group LIBS_LIST: key (timestamp string) -> path
    \* Library on disk and the main window
    lib_root_path,     \* Library.root_path, 0 for None
    engine,            \* schema file Library.engine is connected to
    schema_files,      \* the schema files on disk and their rows
    window_title,      \* root path shown in the window title, "base" for none
    \* Library.refresh_dir
    scan,              \* the running directory scan, if any
    dir_file_count,    \* Library.dir_file_count
    scanners,          \* refresh_dir calls running side by side on pool threads
    \* Library.get_all_child_tag_ids
    walk,              \* the call in progress: its frames and how it ended
    \* QtDriver.create_collage / try_save_collage
    collage,           \* the canvas, QtDriver.completed, signals under way
    \* bookkeeping of the last operation (not program state)
    lastOp

navVars == <<nav_frames, cur_frame_idx, scroll_value, search_field, pagination>>
thumbVars == <<item_thumbs, update_cutoff, now, thumb_job_queue, consumers,
               gui_events>>
mainVars == <<main_pc, joined>>
tagVars == <<tags, next_tag_id, tag_id_to_index_map, tag_id_to_cluster_map,
             db_entries>>
queryVars == <<cur_query, frame_dict>>
selVars == <<selected>>
settingsVars == <<libs_list>>
libVars == <<lib_root_path, engine, schema_files, window_title>>
scanVars == <<scan, dir_file_count, scanners>>
auxVars == <<walk, collage>>
extVars == <<queryVars, selVars, settingsVars, libVars, scanVars, auxVars>>
vars == <<navVars, thumbVars, mainVars, tagVars, extVars, lastOp>>

(***************************************************************************)
(* Files on disk                                                           *)
(***************************************************************************)
\* the schema file of the library at root path: where = "ts" for
\* path/<library folder>/<library file>, "top" for path/<library file>
SchemaFile(path, where) == << path, where >>
\* the tags library_defaults() seeds a new library with
library_defaults ==
    << [name |-> "Archived", subtags |-> {}],
       [name |-> "Favorite", subtags |-> {}] >>
\* no scan running
\* a Library object that has no engine attribute yet
NoEngine == SchemaFile(0, "none")
NoScan == [pc |-> "idle", todo |-> {}, notify |-> FALSE]
\* the pool threads that can run a scan, and one that runs none
ScanThreads == 1..MaxScans
NoScanner == [pc |-> "idle", todo |-> {}, file |-> "", loaded |-> 0,
              known |-> FALSE]
\* before create_collage was ever called: no canvas (self.collage) and no
\* counter (self.completed) yet
NoCollage == [canvas |-> "none", completed |-> 0, done_signals |-> 0,
              calls |-> 0, saved |-> 0]
\* no call of get_all_child_tag_ids in progress and no result of one held
NoWalk == [status |-> "idle", start |-> 0, stack |-> <<>>, result |-> {}]

(***************************************************************************)
(* Python list helpers                                                     *)
(***************************************************************************)
\* position (1-based) of Python index i in list s; negative i counts from the end
PyIdx(s, i) == IF i >= 0 THEN i + 1 ELSE Len(s) + i + 1
\* s[:k]
PyPrefix(s, k) == SubSeq(s, 1, IF k > Len(s) THEN Len(s) ELSE k)
\* s.pop()
PyPop(s) == SubSeq(s, 1, Len(s) - 1)
Min(a, b) == IF a < b THEN a ELSE b

NavigationState(contents, scrollbar_pos, page_index, page_count, search_text) ==
    [contents |-> contents, scrollbar_pos |-> scrollbar_pos,
     page_index |-> page_index, page_count |-> page_count,
     search_text |-> search_text]

\* no ThumbRenderer.render call: its arguments when there is none
NoArgs == [filepath |-> "", exists |-> FALSE, size |-> <<0, 0>>,
           base_size |-> <<0, 0>>, is_loading |-> FALSE, gradient |-> FALSE,
           update_on_ratio_change |-> FALSE]

NoOp == [op |-> "init", has_content |-> FALSE, frame_content |-> <<>>,
         pre_idx |-> -1, pre_len |-> 0, pre_empty |-> FALSE, redrawn |-> FALSE,
         applied |-> FALSE, stale |-> FALSE, outcome |-> "",
         tag_id |-> -1, query |-> "", prev_query |-> "none", click |-> "",
         path |-> 0, file |-> "", entry_id |-> 0, field_index |-> 0,
         content |-> <<>>, mode |-> "", data |-> "", entry_ids |-> <<>>,
         again |-> FALSE, args |-> NoArgs, emitted |-> <<>>,
         cell |-> 0, is_loading |-> FALSE]

(***************************************************************************)
(* QtDriver.update_thumbs                                                  *)
(***************************************************************************)
\* value of the k-th time.time() call of a handler that starts at clock value
\* t0 and whose clock advances by ticks
TimeAt(t0, ticks, k) == t0 + Cardinality({j \in 1..k : ticks[j] = 1})

RenderJob(thumb, timestamp, filepath, is_loading) ==
    [fn |-> "render", thumb |-> thumb, timestamp |-> timestamp,
     filepath |-> filepath, is_loading |-> is_loading, stale |-> FALSE]

\* jobs queued by the first loop: one loading placeholder per shown cell
LoadingJobs(n) == [i \in 1..n |-> RenderJob(i, FloatMax, "", TRUE)]
\* jobs queued by the second loop: the full render, stamped time.time()
FullJobs(t0, contents, n, ticks) ==
    [i \in 1..n |-> RenderJob(i, TimeAt(t0, ticks, i + 1), contents[i][3], FALSE)]

\* mark what was queued, running or emitted before this refresh (bookkeeping)
MarkStale(j) == [j EXCEPT !.stale = TRUE]

\* update_thumbs run at clock value t0 with the selection sel
update_thumbs_with(t0, frames, idx, ticks, sel) ==
    LET contents == frames[PyIdx(frames, idx)].contents
        n == Min(Len(contents), MaxResults)
    IN  /\ TimeAt(t0, ticks, n + 1) <= MaxTime
        /\ \A k \in (n + 2)..(MaxResults + 1) : ticks[k] = 0
        /\ update_cutoff' = TimeAt(t0, ticks, 1)
        /\ now' = TimeAt(t0, ticks, n + 1)
        /\ thumb_job_queue' = LoadingJobs(n) \o FullJobs(t0, contents, n, ticks)
        /\ item_thumbs' = [i \in 1..MaxResults |->
               IF i <= n
               THEN [item_thumbs[i] EXCEPT
                       !.mode = contents[i][1],
                       !.item_id = contents[i][2],
                       !.selected = \E k \in 1..Len(sel) :
                                       sel[k] = <<contents[i][1], contents[i][2]>>,
                       !.full_applied = FALSE]
               ELSE [item_thumbs[i] EXCEPT !.full_applied = FALSE]]
        /\ consumers' = [w \in Workers |->
               IF consumers[w].pc = "run"
               THEN [consumers[w] EXCEPT !.job = MarkStale(consumers[w].job)]
               ELSE consumers[w]]
        /\ gui_events' = [k \in 1..Len(gui_events) |-> MarkStale(gui_events[k])]

\* update_thumbs with self.selected as it stands
update_thumbs(frames, idx, ticks) ==
    update_thumbs_with(now, frames, idx, ticks, selected)

(***************************************************************************)
(* QtDriver.nav_forward                                                    *)
(***************************************************************************)
\* nav_forward that appends to the whole history instead of cutting it first
NavForwardResult_NoCut(has_content, st, sb_pos) ==
    IF has_content
    THEN LET app == Append(nav_frames, st)
         IN  << [app EXCEPT ![PyIdx(app, cur_frame_idx)].scrollbar_pos = sb_pos],
                cur_frame_idx + 1 >>
    ELSE IF Len(nav_frames) > cur_frame_idx + 1
         THEN << nav_frames, cur_frame_idx + 1 >>
         ELSE << nav_frames, cur_frame_idx >>

\* nav_forward that keeps an empty current record behind the new one
NavForwardResult_KeepEmpty(has_content, st, sb_pos) ==
    IF has_content
    THEN LET app == Append(PyPrefix(nav_frames, cur_frame_idx + 1), st)
         IN  << [app EXCEPT ![PyIdx(app, cur_frame_idx)].scrollbar_pos = sb_pos],
                cur_frame_idx + 1 >>
    ELSE IF Len(nav_frames) > cur_frame_idx + 1
         THEN << nav_frames, cur_frame_idx + 1 >>
         ELSE << nav_frames, cur_frame_idx >>

\* the history and index nav_forward leaves when it starts from the history
\* frames at index idx, as <<frames, idx>>
NavForwardFrom(frames, idx, has_content, st, sb_pos) ==
    IF Len(frames) > idx + 1
    THEN IF has_content
         THEN LET cut == PyPrefix(frames, idx + 1)
                  trimmed == /\ cut # <<>>
                             /\ cut[PyIdx(cut, idx)].contents = <<>>
                  base == IF trimmed THEN PyPop(cut) ELSE cut
                  app == Append(base, st)
              IN  << [app EXCEPT ![PyIdx(app, idx)].scrollbar_pos = sb_pos],
                     IF trimmed THEN idx ELSE idx + 1 >>
         ELSE << [frames EXCEPT
                     ![PyIdx(frames, idx)].scrollbar_pos = sb_pos],
                 idx + 1 >>
    ELSE IF has_content
         THEN LET trimmed == /\ frames # <<>>
                             /\ frames[PyIdx(frames, idx)].contents = <<>>
                  base == IF trimmed THEN PyPop(frames) ELSE frames
                  app == Append(base, st)
              IN  << [app EXCEPT ![PyIdx(app, idx)].scrollbar_pos = sb_pos],
                     IF trimmed THEN idx ELSE idx + 1 >>
         ELSE << frames, idx >>

\* the history and index nav_forward leaves, as <<frames, idx>>
NavForwardResult(has_content, st, sb_pos) ==
    NavForwardFrom(nav_frames, cur_frame_idx, has_content, st, sb_pos)

\* the handlers' last block: searchField.setText, scrollbar setValue,
\* pagination.update_buttons from the record at the (new) current index
restore_gui_KeepSearchText(frames, idx) ==
    /\ scroll_value' = frames[PyIdx(frames, idx)].scrollbar_pos
    /\ search_field' = search_field
    /\ pagination' = [count |-> frames[PyIdx(frames, idx)].page_count,
                      index |-> frames[PyIdx(frames, idx)].page_index]

restore_gui(frames, idx) ==
    /\ scroll_value' = frames[PyIdx(frames, idx)].scrollbar_pos
    /\ search_field' = frames[PyIdx(frames, idx)].search_text
    /\ pagination' = [count |-> frames[PyIdx(frames, idx)].page_count,
                      index |-> frames[PyIdx(frames, idx)].page_index]

NeedsRedraw_WheneverShown(idx2, original_pos, has_content) ==
    (idx2 # original_pos) \/ has_content \/ idx2 >= 0

\* (self.cur_frame_idx != original_pos) or (frame_content is not None)
NeedsRedraw(idx2, original_pos, has_content) ==
    (idx2 # original_pos) \/ has_content

nav_forward(has_content, frame_content, page_index, page_count, ticks) ==
    LET st == NavigationState(frame_content, 0, page_index, page_count, search_field)
        res == NavForwardResult(has_content, st, scroll_value)
        frames2 == res[1]
        idx2 == res[2]
        redraw == NeedsRedraw(idx2, cur_frame_idx, has_content)
    IN  /\ main_pc = "running"
        /\ Len(frames2) <= MaxNavFrames
        /\ nav_frames' = frames2
        /\ cur_frame_idx' = idx2
        /\ IF redraw
           THEN /\ update_thumbs(frames2, idx2, ticks)
                /\ restore_gui(frames2, idx2)
           ELSE UNCHANGED <<thumbVars, scroll_value, search_field, pagination>>
        /\ lastOp' = [NoOp EXCEPT
                      !.op = "nav_forward", !.has_content = has_content,
                      !.frame_content = IF has_content THEN frame_content ELSE <<>>,
                      !.pre_idx = cur_frame_idx, !.pre_len = Len(nav_frames),
                      !.pre_empty = /\ nav_frames # <<>>
                                    /\ nav_frames[PyIdx(nav_frames, cur_frame_idx)].contents = <<>>,
                      !.redrawn = redraw]
        /\ UNCHANGED <<mainVars, tagVars, extVars>>

(***************************************************************************)
(* QtDriver.nav_back                                                       *)
(***************************************************************************)
\* nav_back that also steps back from the first record
CanGoBack_FromFirst(idx) == idx >= 0

\* if self.cur_frame_idx > 0
CanGoBack(idx) == idx > 0

nav_back(ticks) ==
    /\ main_pc = "running"
    /\ IF CanGoBack(cur_frame_idx)
       THEN LET frames2 == [nav_frames EXCEPT
                   ![PyIdx(nav_frames, cur_frame_idx)].scrollbar_pos = scroll_value]
                idx2 == cur_frame_idx - 1
            IN  /\ nav_frames' = frames2
                /\ cur_frame_idx' = idx2
                /\ update_thumbs(frames2, idx2, ticks)
                /\ restore_gui(frames2, idx2)
       ELSE UNCHANGED <<navVars, thumbVars>>
    /\ lastOp' = [NoOp EXCEPT !.op = "nav_back", !.pre_idx = cur_frame_idx,
                               !.pre_len = Len(nav_frames),
                               !.redrawn = CanGoBack(cur_frame_idx)]
    /\ UNCHANGED <<mainVars, tagVars, extVars>>

(***************************************************************************)
(* QtDriver.refresh_frame                                                  *)
(***************************************************************************)
\* the record refresh_frame would write if it took the pagination from its
\* arguments
RefreshedState_FromArguments(old, frame_content, page_index, page_count, text) ==
    NavigationState(frame_content, 0, page_index, page_count, text)

\* the record refresh_frame puts in the place of the record old
RefreshedState(old, frame_content, page_index, page_count, text) ==
    NavigationState(frame_content, 0, old.page_index, old.page_count, text)

\* with an empty history the else branch calls nav_forward(content=...), a
\* keyword nav_forward does not have: TypeError, and update_thumbs is not
\* reached
refresh_frame(frame_content, page_index, page_count, ticks) ==
    /\ main_pc = "running"
    /\ IF nav_frames # <<>>
       THEN LET pos == PyIdx(nav_frames, cur_frame_idx)
                frames2 == [nav_frames EXCEPT ![pos] =
                               RefreshedState(nav_frames[pos], frame_content,
                                              page_index, page_count,
                                              search_field)]
            IN  /\ nav_frames' = frames2
                /\ update_thumbs(frames2, cur_frame_idx, ticks)
       ELSE UNCHANGED <<nav_frames, thumbVars>>
    /\ lastOp' = [NoOp EXCEPT
                  !.op = "refresh_frame", !.frame_content = frame_content,
                  !.pre_idx = cur_frame_idx, !.pre_len = Len(nav_frames),
                  !.redrawn = nav_frames # <<>>,
                  !.outcome = IF nav_frames # <<>> THEN "" ELSE "TypeError"]
    /\ UNCHANGED <<cur_frame_idx, scroll_value, search_field, pagination,
                   mainVars, tagVars, extVars>>

(***************************************************************************)
(* The user scrolling the grid and typing in the search field              *)
(***************************************************************************)
UserScroll(v) ==
    /\ main_pc = "running"
    /\ scroll_value' = v
    /\ lastOp' = [NoOp EXCEPT !.op = "user_scroll"]
    /\ UNCHANGED <<nav_frames, cur_frame_idx, search_field, pagination,
                   thumbVars, mainVars, tagVars, extVars>>

UserType(t) ==
    /\ main_pc = "running"
    /\ search_field' = t
    /\ lastOp' = [NoOp EXCEPT !.op = "user_type"]
    /\ UNCHANGED <<nav_frames, cur_frame_idx, scroll_value, pagination,
                   thumbVars, mainVars, tagVars, extVars>>

(***************************************************************************)
(* Consumer.run: one thumbnail worker thread                               *)
(***************************************************************************)
\* job = self.queue.get(); if job == MARKER_QUIT: break
ConsumerGet(w) ==
    /\ consumers[w].pc = "get"
    /\ thumb_job_queue # <<>>
    /\ LET job == Head(thumb_job_queue)
       IN  /\ thumb_job_queue' = Tail(thumb_job_queue)
           /\ consumers' = [consumers EXCEPT ![w] =
                 IF job = MARKER_QUIT
                 THEN [pc |-> "exited", job |-> NoJob,
                       markers |-> consumers[w].markers + 1]
                 ELSE [pc |-> "run", job |-> job,
                       markers |-> consumers[w].markers]]
           /\ lastOp' = [NoOp EXCEPT !.op = "consumer_get"]
    /\ UNCHANGED <<navVars, item_thumbs, update_cutoff, now, gui_events,
                   mainVars, tagVars, extVars>>

\* what ThumbRenderer.render emits through `updated` for a job
RenderResult(job) ==
    [thumb |-> job.thumb, timestamp |-> job.timestamp,
     image |-> IF job.is_loading THEN "thumb_loading" ELSE job.filepath,
     size |-> IF job.is_loading THEN "square" ELSE job.filepath,
     stale |-> job.stale]

\* what the loop does after job[0](*job[1]) returned or raised
AfterJob(outcome) ==
    IF outcome \in {"returns", "RuntimeError"} THEN "get" ELSE "crashed"

\* job[0](*job[1]) inside try/except RuntimeError
ConsumerRun(w, outcome) ==
    /\ consumers[w].pc = "run"
    /\ consumers[w].job.fn = "render"
    /\ IF outcome = "returns" /\ main_pc = "running"
       THEN /\ Len(gui_events) < MaxEvents
            /\ gui_events' = Append(gui_events, RenderResult(consumers[w].job))
       ELSE UNCHANGED gui_events
    /\ consumers' = [consumers EXCEPT ![w].pc = AfterJob(outcome),
                                      ![w].job = NoJob]
    /\ lastOp' = [NoOp EXCEPT !.op = "consumer_run", !.outcome = outcome]
    /\ UNCHANGED <<navVars, item_thumbs, update_cutoff, now, thumb_job_queue,
                   mainVars, tagVars, extVars>>

(***************************************************************************)
(* ItemThumb.update_thumb / update_size, run by the GUI thread for one     *)
(* delivered `updated` signal                                              *)
(***************************************************************************)
\* if timestamp > ItemThumb.update_cutoff
PassesCutoff(timestamp) == timestamp > update_cutoff

DeliverUpdated ==
    /\ main_pc = "running"
    /\ gui_events # <<>>
    /\ LET e == Head(gui_events)
           ok == PassesCutoff(e.timestamp)
       IN  /\ gui_events' = Tail(gui_events)
           /\ item_thumbs' = IF ok
                 THEN [item_thumbs EXCEPT
                         ![e.thumb].icon = e.image,
                         ![e.thumb].icon_size = e.size,
                         ![e.thumb].full_applied =
                             IF e.image # "thumb_loading" /\ ~e.stale
                             THEN TRUE ELSE @]
                 ELSE item_thumbs
           /\ lastOp' = [NoOp EXCEPT !.op = "deliver", !.applied = ok,
                                     !.stale = e.stale, !.cell = e.thumb,
                                     !.is_loading = (e.image = "thumb_loading")]
    /\ UNCHANGED <<navVars, update_cutoff, now, thumb_job_queue, consumers,
                   mainVars, tagVars, extVars>>

(***************************************************************************)
(* ThumbRenderer.render: what one call emits through its signals           *)
(* updated_ratio and updated, as the list of emissions in order.  A file   *)
(* is given by its path, the class of its extension, whether it exists on  *)
(* disk and, when it does, the size of the picture it decodes to.          *)
(***************************************************************************)
\* extension classes of src.core.constants
IMAGE_TYPES == {"png"}
RAW_IMAGE_TYPES == {"cr2"}
VIDEO_TYPES == {"mp4"}
PLAINTEXT_TYPES == {"txt"}

\* os.path.splitext(filepath)[1][1:].lower() for the paths used here
Extension(filepath) ==
    CASE filepath = "a.png" -> "png"
      [] filepath = "b.cr2" -> "cr2"
      [] filepath = "c.mp4" -> "mp4"
      [] filepath = "d.txt" -> "txt"
      [] filepath = "e.zip" -> "zip"
      [] OTHER -> ""

\* math.ceil(a * (b / c))
CeilScale(a, b, c) == (a * b + c - 1) \div c

\* the exceptions the except clause of render lists
RenderCaught == {"UnidentifiedImageError", "FileNotFoundError", "cv2.error",
                 "DecompressionBombError", "UnicodeDecodeError"}

\* the extension branch with the generic-file placeholder only for files
\* that exist
DecodeFile_OtherNeedsFile(f, adj_size) ==
    LET ext == Extension(f.filepath)
        picture == [name |-> f.filepath, size |-> f.size, exc |-> ""]
        raised(e) == [name |-> "", size |-> <<0, 0>>, exc |-> e]
    IN  CASE ext \in IMAGE_TYPES ->
               \* Image.open
               IF f.exists THEN picture ELSE raised("FileNotFoundError")
          [] ext \in RAW_IMAGE_TYPES ->
               \* rawpy.imread: LibRawIOError is caught and logged, image
               \* stays None and `if not image` raises
               IF f.exists THEN picture ELSE raised("UnidentifiedImageError")
          [] ext \in VIDEO_TYPES ->
               \* both video.read() fail and cv2.cvtColor(None) raises
               IF f.exists THEN picture ELSE raised("cv2.error")
          [] ext \in PLAINTEXT_TYPES ->
               \* open(filepath, "r")
               IF f.exists
               THEN [name |-> f.filepath, size |-> <<256, 256>>, exc |-> ""]
               ELSE raised("FileNotFoundError")
          [] OTHER ->
               IF f.exists
               THEN [name |-> "thumb_file_default",
                     size |-> <<adj_size, adj_size>>, exc |-> ""]
               ELSE raised("FileNotFoundError")

\* the branch on the extension: the picture `image` is left with (its name
\* and size, name "" for None) or the exception that leaves the branch
DecodeFile(f, adj_size) ==
    LET ext == Extension(f.filepath)
        picture == [name |-> f.filepath, size |-> f.size, exc |-> ""]
        raised(e) == [name |-> "", size |-> <<0, 0>>, exc |-> e]
    IN  CASE ext \in IMAGE_TYPES ->
               \* Image.open
               IF f.exists THEN picture ELSE raised("FileNotFoundError")
          [] ext \in RAW_IMAGE_TYPES ->
               \* rawpy.imread: LibRawIOError is caught and logged, image
               \* stays None and `if not image` raises
               IF f.exists THEN picture ELSE raised("UnidentifiedImageError")
          [] ext \in VIDEO_TYPES ->
               \* both video.read() fail and cv2.cvtColor(None) raises
               IF f.exists THEN picture ELSE raised("cv2.error")
          [] ext \in PLAINTEXT_TYPES ->
               \* open(filepath, "r")
               IF f.exists
               THEN [name |-> f.filepath, size |-> <<256, 256>>, exc |-> ""]
               ELSE raised("FileNotFoundError")
          [] OTHER ->
               \* thumb_file_default_512 resized; the file is not opened
               [name |-> "thumb_file_default", size |-> <<adj_size, adj_size>>,
                exc |-> ""]

UpdatedRatio(x, y) == [signal |-> "updated_ratio", bitmap |-> "", size |-> <<x, y>>]
Updated(bitmap, w, h) == [signal |-> "updated", bitmap |-> bitmap, size |-> <<w, h>>]

\* render(timestamp, filepath, base_size, pixel_ratio = 1, is_loading,
\* gradient, update_on_ratio_change)
Render(a) ==
    LET adj_size == IF a.base_size[1] > a.base_size[2] THEN a.base_size[1]
                    ELSE a.base_size[2]
        ratio(x, y) == IF a.update_on_ratio_change THEN << UpdatedRatio(x, y) >>
                       ELSE <<>>
    IN  IF a.is_loading
        THEN ratio(1, 1) \o << Updated("thumb_loading", adj_size, adj_size) >>
        ELSE IF a.filepath # ""
        THEN LET image == DecodeFile(a, adj_size)
                 orig_x == image.size[1]
                 orig_y == image.size[2]
                 new_x == IF orig_y > orig_x
                          THEN CeilScale(adj_size, orig_x, orig_y) ELSE adj_size
                 new_y == IF orig_x > orig_y
                          THEN CeilScale(adj_size, orig_y, orig_x) ELSE adj_size
             IN  IF image.exc \in RenderCaught
                 THEN ratio(1, 1)
                        \o << Updated("thumb_broken", adj_size, adj_size) >>
                 ELSE ratio(new_x, new_y)
                        \o << Updated(image.name, adj_size,
                                      IF a.gradient THEN adj_size ELSE new_y) >>
        ELSE << Updated("empty", a.base_size[1], a.base_size[2]) >>

\* one call of render on a renderer whose signals are recorded
render(a) ==
    /\ lastOp' = [NoOp EXCEPT !.op = "render", !.args = a,
                              !.emitted = Render(a)]
    /\ UNCHANGED <<navVars, thumbVars, mainVars, tagVars, extVars>>

(***************************************************************************)
(* QtDriver.create_collage and try_save_collage.  create_collage queues    *)
(* one CollageIconRenderer.render job per entry on the shared job queue;   *)
(* the renderer's `done` signal runs try_save_collage(True) on the GUI     *)
(* thread once the event loop delivers it.                                 *)
(***************************************************************************)
CollageJob(entry_id) ==
    [fn |-> "collage", thumb |-> entry_id, timestamp |-> 0,
     filepath |-> "", is_loading |-> FALSE, stale |-> FALSE]

\* the jobs the two for loops queue: grid_len * grid_len cells hold every
\* entry, so one job per row of lib.entries (the Entry rows of the store)
CollageJobs(rows) == [i \in 1..Len(rows) |-> CollageJob(rows[i].id)]

create_collage ==
    /\ main_pc = "running"
    /\ collage.calls < MaxCollages
    /\ collage' = [collage EXCEPT !.canvas = "open", !.completed = 0,
                                  !.calls = @ + 1]
    /\ thumb_job_queue' = thumb_job_queue \o CollageJobs(db_entries)
    /\ lastOp' = [NoOp EXCEPT !.op = "create_collage"]
    /\ UNCHANGED <<navVars, item_thumbs, update_cutoff, now, consumers,
                   gui_events, mainVars, tagVars, queryVars, selVars,
                   settingsVars, libVars, scanVars, walk>>

\* a Consumer running a CollageIconRenderer.render job: when it returns the
\* renderer has emitted `done`
ConsumerRunCollage(w, outcome) ==
    /\ consumers[w].pc = "run"
    /\ consumers[w].job.fn = "collage"
    /\ IF outcome = "returns" /\ main_pc = "running"
       THEN collage' = [collage EXCEPT !.done_signals = @ + 1]
       ELSE UNCHANGED collage
    /\ consumers' = [consumers EXCEPT ![w].pc = AfterJob(outcome),
                                      ![w].job = NoJob]
    /\ lastOp' = [NoOp EXCEPT !.op = "consumer_run_collage",
                              !.outcome = outcome]
    /\ UNCHANGED <<navVars, item_thumbs, update_cutoff, now, thumb_job_queue,
                   gui_events, mainVars, tagVars, queryVars, selVars,
                   settingsVars, libVars, scanVars, walk>>

\* the file name try_save_collage builds: it reads self.lib.library_dir, an
\* attribute Library does not have
collage_filename == "AttributeError"

\* what try_save_collage does to the collage state c with n entries in the
\* library, and how it ends
TrySaveCollage(c, increment_progress, n) ==
    LET completed == IF increment_progress THEN c.completed + 1
                     ELSE c.completed
        counted == [c EXCEPT !.completed = completed]
    IN  IF completed = n
        THEN IF collage_filename = "AttributeError"
             THEN [c |-> counted, exc |-> "AttributeError"]
             ELSE [c |-> [counted EXCEPT !.canvas = "none", !.saved = @ + 1],
                   exc |-> ""]
        ELSE [c |-> counted, exc |-> ""]

\* the GUI thread delivering one `done` signal: try_save_collage(True)
try_save_collage ==
    /\ main_pc = "running"
    /\ collage.done_signals > 0
    /\ LET r == TrySaveCollage([collage EXCEPT !.done_signals = @ - 1],
                               TRUE, Len(db_entries))
       IN  /\ collage' = r.c
           /\ lastOp' = [NoOp EXCEPT !.op = "try_save_collage",
                                     !.outcome = r.exc]
    /\ UNCHANGED <<navVars, thumbVars, mainVars, tagVars, queryVars, selVars,
                   settingsVars, libVars, scanVars, walk>>

(***************************************************************************)
(* QtDriver.shutdown                                                       *)
(***************************************************************************)
MarkersOneShort == [k \in 1..(NumWorkers - 1) |-> MARKER_QUIT]

\* for _ in self.thumb_threads: self.thumb_job_queue.put(MARKER_QUIT)
Markers == [k \in 1..NumWorkers |-> MARKER_QUIT]

shutdown ==
    /\ main_pc = "running"
    /\ thumb_job_queue' = thumb_job_queue \o Markers
    /\ main_pc' = "join"
    /\ joined' = 0
    /\ lastOp' = [NoOp EXCEPT !.op = "shutdown"]
    /\ UNCHANGED <<navVars, item_thumbs, update_cutoff, now, consumers,
                   gui_events, tagVars, extVars>>

\* thread.quit(); thread.wait() for the next thread, then QApplication.quit()
shutdown_wait ==
    /\ main_pc = "join"
    /\ joined < NumWorkers
    /\ consumers[joined + 1].pc \in {"exited", "crashed"}
    /\ joined' = joined + 1
    /\ main_pc' = IF joined + 1 = NumWorkers THEN "quit" ELSE "join"
    /\ lastOp' = [NoOp EXCEPT !.op = "shutdown_wait"]
    /\ UNCHANGED <<navVars, thumbVars, tagVars, extVars>>

(***************************************************************************)
(* Library: tags, the id->index and id->cluster caches, the Entry store.   *)
(* The name/alias lookup map (_tag_strings_to_id_map) is read by none of   *)
(* the operations below and is not represented.                            *)
(***************************************************************************)
\* x in list
In(x, s) == \E k \in 1..Len(s) : s[k] = x
\* [y for y in s if y != x]
RECURSIVE Without(_, _)
Without(s, x) ==
    IF s = <<>> THEN <<>>
    ELSE IF Head(s) = x THEN Without(Tail(s), x)
         ELSE <<Head(s)>> \o Without(Tail(s), x)
\* list.remove(x): drops the first occurrence
RECURSIVE ListRemove(_, _)
ListRemove(s, x) ==
    IF s = <<>> THEN <<>>
    ELSE IF Head(s) = x THEN Tail(s)
         ELSE <<Head(s)>> \o ListRemove(Tail(s), x)
\* duplicate-free lists over a set
RECURSIVE ListsOver(_)
ListsOver(S) ==
    {<<>>} \cup UNION { { <<x>> \o l : l \in ListsOver(S \ {x}) } : x \in S }

\* Library.get_tag over a given tag list and index map
GetTag(T, imap, tag_id) == T[imap[tag_id] + 1]
get_tag(tag_id) == GetTag(tags, tag_id_to_index_map, tag_id)
\* Library.get_tag_cluster
get_tag_cluster(tag_id) ==
    IF tag_id \in DOMAIN tag_id_to_cluster_map
    THEN tag_id_to_cluster_map[tag_id] ELSE <<>>
\* the Library.entries property: detached copies loaded from the store
entries == db_entries

\* Library._map_tag_id_to_cluster(tag, subtags), returning the cluster map
RECURSIVE map_tag_id_to_cluster(_, _, _, _, _)
RECURSIVE MapSubtagsFrom(_, _, _, _, _, _)
map_tag_id_to_cluster(cmap, T, imap, tag_id, subtags) ==
    LET eff == IF subtags = <<>>
               THEN GetTag(T, imap, tag_id).subtag_ids
               ELSE subtags
    IN  MapSubtagsFrom(cmap, T, imap, tag_id, eff, 1)
MapSubtagsFrom(cmap, T, imap, tag_id, subtags, k) ==
    IF k > Len(subtags) THEN cmap
    ELSE LET sub == subtags[k]
             c1 == IF sub \in DOMAIN cmap THEN cmap ELSE cmap @@ (sub :> <<>>)
             c2 == [c1 EXCEPT ![sub] = Append(@, tag_id)]
             c3 == IF In(tag_id, c1[sub]) THEN c1
                   ELSE IF GetTag(T, imap, sub).subtag_ids # <<>>
                        THEN map_tag_id_to_cluster(c2, T, imap, tag_id,
                                 Without(GetTag(T, imap, sub).subtag_ids, tag_id))
                        ELSE c2
         IN  MapSubtagsFrom(c3, T, imap, tag_id, subtags, k + 1)

\* the self-reference filter of add_tag_to_library, applied with the id the
\* Tag object carries when the filter runs
StripSelfReference(subtag_ids, given_id, new_id) == Without(subtag_ids, given_id)

\* Library.add_tag_to_library(tag) for a Tag carrying id given_id
add_tag_to_library(given_id, subtag_ids) ==
    LET new_id == next_tag_id
        tag == [id |-> new_id,
                subtag_ids |-> StripSelfReference(subtag_ids, given_id, new_id)]
        T == Append(tags, tag)
        imap == IF new_id \in DOMAIN tag_id_to_index_map
                THEN [tag_id_to_index_map EXCEPT ![new_id] = Len(T) - 1]
                ELSE tag_id_to_index_map @@ (new_id :> (Len(T) - 1))
    IN  /\ next_tag_id < FirstTagId + MaxTags
        /\ \A k \in 1..Len(subtag_ids) :
              subtag_ids[k] \in DOMAIN tag_id_to_index_map \cup {new_id}
        /\ next_tag_id' = new_id + 1
        /\ tags' = T
        /\ tag_id_to_index_map' = imap
        /\ tag_id_to_cluster_map' =
              map_tag_id_to_cluster(tag_id_to_cluster_map, T, imap, new_id, <<>>)
        /\ lastOp' = [NoOp EXCEPT !.op = "add_tag", !.tag_id = new_id]
        /\ UNCHANGED <<db_entries, navVars, thumbVars, mainVars, extVars>>

\* step 3 of remove_tag: what is left of the cluster map
RemoveFromClusters(cmap, tag_id) ==
    [key \in DOMAIN cmap \ {tag_id} |-> ListRemove(cmap[key], tag_id)]

\* step 6 of remove_tag done with enumerate(self.tags, start=1)
RemapTagIndices_FromOne(T) ==
    [id \in {T[k].id : k \in 1..Len(T)} |->
       CHOOSE k \in 1..Len(T) : T[k].id = id]

\* steps 4 and 6 of remove_tag: the index map cleared and filled again from
\* enumerate(self.tags)
RemapTagIndices(T) ==
    [id \in {T[k].id : k \in 1..Len(T)} |->
       (CHOOSE k \in 1..Len(T) : T[k].id = id) - 1]

\* Library.remove_tag(tag_id)
remove_tag(tag_id) ==
    /\ tag_id \in DOMAIN tag_id_to_index_map
    /\ LET tag == get_tag(tag_id)
           \* step 2
           T2 == [k \in 1..Len(tags) |->
                    [tags[k] EXCEPT !.subtag_ids = ListRemove(@, tag.id)]]
           \* step 5
           pos == tag_id_to_index_map[tag_id] + 1
           T5 == SubSeq(T2, 1, pos - 1) \o SubSeq(T2, pos + 1, Len(T2))
       IN  \* step 1 asks get_field_attr(f, "type") for the first field of the
           \* entries, which goes through get_field_obj and the attribute
           \* self.default_fields the Library object never receives: the
           \* AttributeError ends the call before anything is removed
           IF \E k \in 1..Len(entries) : entries[k].fields # <<>>
           THEN /\ UNCHANGED <<tags, tag_id_to_cluster_map,
                               tag_id_to_index_map, db_entries>>
                /\ lastOp' = [NoOp EXCEPT !.op = "remove_tag",
                                          !.tag_id = tag_id,
                                          !.outcome = "AttributeError"]
           ELSE /\ tags' = T5
                /\ tag_id_to_cluster_map' =
                      RemoveFromClusters(tag_id_to_cluster_map, tag.id)
                \* steps 4 and 6
                /\ tag_id_to_index_map' = RemapTagIndices(T5)
                /\ db_entries' = db_entries
                /\ lastOp' = [NoOp EXCEPT !.op = "remove_tag",
                                          !.tag_id = tag_id]
    /\ UNCHANGED <<next_tag_id, navVars, thumbVars, mainVars, extVars>>

\* the tag-box field of id 7 ("Content Tags")
content_tags_field_id == 7
\* Library.add_entry_to_library(entry) for Entry(path, fields); the row id is
\* the store's next primary key
add_entry_to_library(path, fields) ==
    /\ Len(db_entries) < MaxEntries
    /\ db_entries' = Append(db_entries,
          [id |-> Len(db_entries) + 1, path |-> path, fields |-> fields])
    /\ lastOp' = [NoOp EXCEPT !.op = "add_entry"]
    /\ UNCHANGED <<tags, next_tag_id, tag_id_to_index_map,
                   tag_id_to_cluster_map, navVars, thumbVars, mainVars, extVars>>

\* the result list built from the Entry rows
SearchResults(rows) ==
    [k \in 1..Len(rows) |-> <<"ENTRY", rows[k].id, rows[k].path>>]
\* Library.search_library(query): every Entry, whatever the query
search_library(query) ==
    IF engine = NoEngine THEN <<>> ELSE SearchResults(entries)

(***************************************************************************)
(* Entry fields.  The engine addresses a field as a one-key dict           *)
(* {field id: content}, here [id, content]; the content of a text field is *)
(* a string, that of a tag box a list of tag ids.  Every function fetches  *)
(* the entry anew with get_entry, which hands out an object expunged from  *)
(* the session that loaded it.  An operator below takes the Entry rows and *)
(* returns the rows after the call together with the exception that ended  *)
(* it ("" for none).                                                       *)
(***************************************************************************)
Outcome(rows, exc) == [rows |-> rows, exc |-> exc]

\* Library.get_entry(entry_id)
get_entry(rows, entry_id) ==
    rows[CHOOSE k \in 1..Len(rows) : rows[k].id = entry_id]

\* the rows once the object get_entry returned was edited: the session is
\* closed, nothing writes the object back
Persist(rows, edited) == rows

\* entry.fields[pos][field_id] = content on the object of entry entry_id
WithContent(rows, entry_id, pos, content) ==
    [k \in 1..Len(rows) |->
        IF rows[k].id = entry_id
        THEN [rows[k] EXCEPT !.fields[pos].content = content]
        ELSE rows[k]]

RECURSIVE AppendLoop_StoredNoCheck(_, _, _, _, _)
RECURSIVE AppendLoop(_, _, _, _, _)
\* the append loop writing every item to the stored list, present or not
AppendLoop_StoredNoCheck(rows, entry_id, pos, content, k) ==
    IF k > Len(content) THEN rows
    ELSE AppendLoop_StoredNoCheck(
             WithContent(rows, entry_id, pos,
                 Append(get_entry(rows, entry_id).fields[pos].content,
                        content[k])),
             entry_id, pos, content, k + 1)
\* update_entry_field, append/extend: for i in content, from item k on
AppendLoop(rows, entry_id, pos, content, k) ==
    IF k > Len(content) THEN rows
    ELSE LET cur == get_entry(rows, entry_id).fields[pos].content
             next == IF ~In(content[k], cur)
                     THEN Persist(rows, WithContent(rows, entry_id, pos,
                                                    Append(cur, content[k])))
                     ELSE rows
         IN  AppendLoop(next, entry_id, pos, content, k + 1)

\* update_entry_field, remove: for i in content, from item k on; list.remove
\* raises ValueError for an item the list does not hold
RECURSIVE RemoveLoop(_, _, _, _, _)
RemoveLoop(rows, entry_id, pos, content, k) ==
    IF k > Len(content) THEN Outcome(rows, "")
    ELSE LET cur == get_entry(rows, entry_id).fields[pos].content
         IN  IF ~In(content[k], cur) THEN Outcome(rows, "ValueError")
             ELSE RemoveLoop(Persist(rows, WithContent(rows, entry_id, pos,
                                               ListRemove(cur, content[k]))),
                             entry_id, pos, content, k + 1)

\* Library.update_entry_field(entry_id, field_index, content, mode)
UpdateEntryFieldResult(rows, entry_id, field_index, content, mode) ==
    LET fields == get_entry(rows, entry_id).fields
        pos == PyIdx(fields, field_index)
    IN  IF pos < 1 \/ pos > Len(fields) THEN Outcome(rows, "IndexError")
        ELSE CASE mode \in {"append", "extend"} ->
                    Outcome(AppendLoop(rows, entry_id, pos, content, 1), "")
               [] mode = "replace" ->
                    Outcome(Persist(rows, WithContent(rows, entry_id, pos,
                                                      content)), "")
               [] mode = "remove" ->
                    RemoveLoop(rows, entry_id, pos, content, 1)
               [] OTHER -> Outcome(rows, "")

update_entry_field(entry_id, field_index, content, mode) ==
    /\ \E k \in 1..Len(db_entries) : db_entries[k].id = entry_id
    /\ LET r == UpdateEntryFieldResult(db_entries, entry_id, field_index,
                                       content, mode)
       IN  /\ db_entries' = r.rows
           /\ lastOp' = [NoOp EXCEPT
                         !.op = "update_entry_field", !.entry_id = entry_id,
                         !.field_index = field_index, !.content = content,
                         !.mode = mode, !.outcome = r.exc]
    /\ UNCHANGED <<tags, next_tag_id, tag_id_to_index_map,
                   tag_id_to_cluster_map, navVars, thumbVars, mainVars, extVars>>

\* Library.get_field_index_in_entry(entry, field_id), 0-based indices
get_field_index_in_entry(fields, field_id) ==
    SelectSeq([i \in 1..Len(fields) |-> i - 1],
              LAMBDA i : fields[i + 1].id = field_id)

\* Library.does_field_content_exist(entry_id, field_id, content)
does_field_content_exist(rows, entry_id, field_id, content) ==
    LET fields == get_entry(rows, entry_id).fields
    IN  \E i \in 1..Len(fields) :
           fields[i].id = field_id /\ fields[i].content = content

\* Library.add_field_to_entry(entry_id, field_id): get_field_obj reads
\* self.default_fields, an attribute the Library object never receives
AddFieldToEntryResult(rows, entry_id, field_id) ==
    Outcome(rows, "AttributeError")

\* Library.search_tags: the stub returns [0, 1] for every query
search_tags(query) == << 0, 1 >>

\* the scraped records the importer is called with.  source is given as the
\* tokens data["source"].split(" ") yields; "" stands for a missing key.
NoData ==
    [title |-> "", author |-> "", artist |-> "", date_published |-> "",
     tags |-> <<>>, description |-> "", content |-> "", source |-> <<>>]
DataRecords ==
    [name \in {"none", "title", "people", "bad date", "tags", "text",
               "source"} |->
       CASE name = "none" -> NoData
         [] name = "title" -> [NoData EXCEPT !.title = "t1"]
         [] name = "people" ->
              [NoData EXCEPT !.author = "au", !.artist = "ar",
                             !.date_published = "2024-01-02 03:04:05"]
         [] name = "bad date" -> [NoData EXCEPT !.date_published = "yesterday"]
         [] name = "tags" ->
              [NoData EXCEPT !.title = "t1", !.tags = << "cat_(animal)" >>]
         [] name = "source" -> [NoData EXCEPT !.source = << "https://x.org" >>]
         [] name = "text" ->
              [NoData EXCEPT !.description = "d", !.content = "c",
                             !.source = << "https://x.org", "" >>]]

\* datetime.strptime(text, "%Y-%m-%d %H:%M:%S") accepts the text
ValidDate(text) == text = "2024-01-02 03:04:05"
\* str(datetime.strptime(text, "%Y-%m-%d %H:%M:%S"))
DateString(text) == text
\* strip_web_protocol(string)
strip_web_protocol(string) == IF string = "https://x.org" THEN "x.org" ELSE string
\* tag.replace(")", "").split("_(") for a tag holding "_("
SplitTag(tag) == IF tag = "cat_(animal)" THEN << "cat", "animal" >> ELSE << tag >>
\* the tag names in the order list.sort() gives them
TagNameOrder == << "animal", "cat", "cat_(animal)" >>
\* tags += extra; tags = list(set(tags)); tags.sort(); "" removed
ImportedTags(names) ==
    LET extra == UNION { {SplitTag(names[k])[j] : j \in 1..Len(SplitTag(names[k]))} :
                         k \in {i \in 1..Len(names) : Len(SplitTag(names[i])) > 1} }
        all == {names[k] : k \in 1..Len(names)} \cup extra
    IN  SelectSeq(TagNameOrder, LAMBDA t : t \in all /\ t # "")
\* f"Original Tags: {tags}"
OriginalTagsNote(names) == << "Original Tags: ", names >>

\* the steps add_generic_data_to_entry takes for a record, in order:
\* "gated" adds a field of the id unless the content exists, "tag" handles
\* one imported tag, "raise" is strptime rejecting the date
DataSteps(d) ==
    LET Gated(id, c) == IF c = "" THEN <<>>
                        ELSE << [kind |-> "gated", id |-> id, content |-> c] >>
        T == ImportedTags(d.tags)
        src == SelectSeq(d.source, LAMBDA t : t # "")
    IN  Gated(0, d.title) \o Gated(1, d.author) \o Gated(2, d.artist)
        \o (IF d.date_published = "" THEN <<>>
            ELSE IF ValidDate(d.date_published)
                 THEN Gated(14, DateString(d.date_published))
                 ELSE << [kind |-> "raise", id |-> 14, content |-> ""] >>)
        \o (IF d.tags = <<>> THEN <<>>
            ELSE [k \in 1..Len(T) |-> [kind |-> "tag", id |-> 7, content |-> T[k]]]
                 \o << [kind |-> "gated", id |-> 5,
                        content |-> OriginalTagsNote(T)] >>)
        \o Gated(4, d.description) \o Gated(4, d.content)
        \o [k \in 1..Len(src) |->
              [kind |-> "gated", id |-> 21,
               content |-> strip_web_protocol(src[k])]]

\* a gated add that writes the value, in the store, over the entry's first
\* field of the requested id
GatedAdd_OverwritesSameId(rows, entry_id, field_id, content) ==
    LET indices == get_field_index_in_entry(get_entry(rows, entry_id).fields,
                                            field_id)
    IN  IF does_field_content_exist(rows, entry_id, field_id, content)
        THEN Outcome(rows, "")
        ELSE IF indices = <<>> THEN Outcome(rows, "AttributeError")
        ELSE Outcome(WithContent(rows, entry_id, indices[1] + 1, content), "")

\* if not does_field_content_exist(...): add_field_to_entry(...);
\* update_entry_field(entry_id, -1, content, "replace")
GatedAdd(rows, entry_id, field_id, content) ==
    IF does_field_content_exist(rows, entry_id, field_id, content)
    THEN Outcome(rows, "")
    ELSE LET a == AddFieldToEntryResult(rows, entry_id, field_id)
         IN  IF a.exc # "" THEN a
             ELSE UpdateEntryFieldResult(a.rows, entry_id, -1, content, "replace")

\* one imported tag: the first match goes to the Content Tags field found at
\* an index above 0, else to a Content Tags field added for it
ImportTag(rows, entry_id, tag) ==
    LET matching == search_tags(tag)
        content_tags_field_indices ==
            get_field_index_in_entry(get_entry(rows, entry_id).fields, 7)
        priority_field_index ==
            IF content_tags_field_indices # <<>>
            THEN content_tags_field_indices[1] ELSE -1
    IN  IF matching = <<>> THEN Outcome(rows, "")
        ELSE IF priority_field_index > 0
        THEN UpdateEntryFieldResult(rows, entry_id, priority_field_index,
                                    << matching[1] >>, "append")
        ELSE LET a == AddFieldToEntryResult(rows, entry_id, 7)
             IN  IF a.exc # "" THEN a
                 ELSE UpdateEntryFieldResult(a.rows, entry_id, -1,
                                             << matching[1] >>, "append")

RECURSIVE RunDataSteps(_, _, _, _)
RunDataSteps(rows, entry_id, steps, k) ==
    IF k > Len(steps) THEN Outcome(rows, "")
    ELSE LET r == CASE steps[k].kind = "gated" ->
                        GatedAdd(rows, entry_id, steps[k].id, steps[k].content)
                   [] steps[k].kind = "tag" ->
                        ImportTag(rows, entry_id, steps[k].content)
                   [] OTHER -> Outcome(rows, "ValueError")
         IN  IF r.exc # "" THEN r
             ELSE RunDataSteps(r.rows, entry_id, steps, k + 1)

\* Library.add_generic_data_to_entry(data, entry_id)
AddGenericDataResult(rows, data, entry_id) ==
    RunDataSteps(rows, entry_id, DataSteps(data), 1)

add_generic_data_to_entry(name, entry_id) ==
    /\ \E k \in 1..Len(db_entries) : db_entries[k].id = entry_id
    /\ LET r == AddGenericDataResult(db_entries, DataRecords[name], entry_id)
       IN  /\ db_entries' = r.rows
           /\ lastOp' = [NoOp EXCEPT
                         !.op = "add_generic_data_to_entry",
                         !.entry_id = entry_id, !.data = name,
                         !.outcome = r.exc,
                         !.again = /\ lastOp.op = "add_generic_data_to_entry"
                                   /\ lastOp.data = name
                                   /\ lastOp.entry_id = entry_id]
    /\ UNCHANGED <<tags, next_tag_id, tag_id_to_index_map,
                   tag_id_to_cluster_map, navVars, thumbVars, mainVars, extVars>>

\* the order mirror_entry_fields sorts the merged fields by
mirror_order ==
    << 0, 1, 2, 9, 17, 18, 19, 20, 10, 14, 11, 12, 13, 22, 4, 5, 8, 7, 6, 3, 21 >>

\* Library.mirror_entry_fields(entry_ids): the merge loop asks
\* get_field_attr(field, "type") for the first field it meets, which goes
\* through get_field_obj and the missing self.default_fields; without any
\* field the lists stay empty and only the fetched objects are assigned to
MirrorEntryFieldsResult(rows, entry_ids) ==
    IF \E k \in 1..Len(entry_ids) :
          entry_ids[k] # 0 /\ get_entry(rows, entry_ids[k]).fields # <<>>
    THEN Outcome(rows, "AttributeError")
    ELSE Outcome(Persist(rows, rows), "")

mirror_entry_fields(entry_ids) ==
    /\ \A i \in 1..Len(entry_ids) :
          \E k \in 1..Len(db_entries) : db_entries[k].id = entry_ids[i]
    /\ LET r == MirrorEntryFieldsResult(db_entries, entry_ids)
       IN  /\ db_entries' = r.rows
           /\ lastOp' = [NoOp EXCEPT
                         !.op = "mirror_entry_fields",
                         !.entry_ids = entry_ids, !.outcome = r.exc]
    /\ UNCHANGED <<tags, next_tag_id, tag_id_to_index_map,
                   tag_id_to_cluster_map, navVars, thumbVars, mainVars, extVars>>

(***************************************************************************)
(* Library.refresh_dir.  The generator runs in a worker thread and hands   *)
(* control back between files: one step per file of the tree, in the       *)
(* order glob produces them.                                               *)
(***************************************************************************)
\* ts_core.TS_FOLDER_NAME
TS_FOLDER_NAME == ".TagStudio"
\* Library.default_ext_blacklist
default_ext_blacklist == << "json", "xmp", "aae" >>
\* Library.ignored_extensions
ignored_extensions == default_ext_blacklist

\* files found under a library root: the folder they are in, their name and
\* their path relative to the root and whether they are a directory; under
\* and ext describe the file for the properties (the reserved folder it lies
\* in, its extension in lower case)
ScanFiles ==
    { [dir |-> "", name |-> "pics", rel |-> "pics",
       is_dir |-> TRUE, under |-> "", ext |-> ""],
      [dir |-> "", name |-> "a.png", rel |-> "a.png",
       is_dir |-> FALSE, under |-> "", ext |-> "png"],
      [dir |-> "", name |-> "b.JSON", rel |-> "b.JSON",
       is_dir |-> FALSE, under |-> "", ext |-> "json"],
      [dir |-> "pics", name |-> "c.xmp", rel |-> "pics/c.xmp",
       is_dir |-> FALSE, under |-> "", ext |-> "xmp"],
      [dir |-> "pics", name |-> "notes", rel |-> "pics/notes",
       is_dir |-> FALSE, under |-> "", ext |-> ""],
      [dir |-> ".TagStudio", name |-> "d.png", rel |-> ".TagStudio/d.png",
       is_dir |-> FALSE, under |-> "library folder", ext |-> "png"],
      [dir |-> "$RECYCLE.BIN", name |-> "e.png", rel |-> "$RECYCLE.BIN/e.png",
       is_dir |-> FALSE, under |-> "recycle bin", ext |-> "png"],
      [dir |-> "tagstudio_thumbs", name |-> "f.png",
       rel |-> "tagstudio_thumbs/f.png",
       is_dir |-> FALSE, under |-> "thumbnail cache", ext |-> "png"] }

\* needle in str_path, for the folder names the scan looks for
StrContains(f, needle) == f.dir = needle
\* path.suffix
PathSuffix(name) ==
    CASE name = "a.png" -> ".png"
      [] name = "b.JSON" -> ".JSON"
      [] name = "c.xmp" -> ".xmp"
      [] name = "d.png" -> ".png"
      [] name = "e.png" -> ".png"
      [] name = "f.png" -> ".png"
      [] OTHER -> ""
\* str.lower()
StrLower(str) == IF str = ".JSON" THEN ".json" ELSE str
\* suffix[1:]
DropFirstChar(str) ==
    CASE str = ".png" -> "png"
      [] str = ".json" -> "json"
      [] str = ".JSON" -> "JSON"
      [] str = ".xmp" -> "xmp"
      [] OTHER -> ""
\* the suffix refresh_dir compares with the ignored extensions, without lower()
ScanSuffix_NoLower(name) ==
    LET suffix == PathSuffix(name)
    IN  IF suffix # "" THEN DropFirstChar(suffix) ELSE suffix
\* the suffix refresh_dir compares with the ignored extensions
ScanSuffix(name) ==
    LET suffix == StrLower(PathSuffix(name))
    IN  IF suffix # "" THEN DropFirstChar(suffix) ELSE suffix

\* queries.path_in_db over the Entry rows
path_in_db(path, rows) == \E k \in 1..Len(rows) : rows[k].path = path

\* the two conditions of the loop body: f is a file outside the reserved
\* folders and its suffix is not an ignored extension
Counted(f) ==
    /\ ~f.is_dir
    /\ ~StrContains(f, "$RECYCLE.BIN")
    /\ ~StrContains(f, TS_FOLDER_NAME)
    /\ ~StrContains(f, "tagstudio_thumbs")
    /\ ~In(ScanSuffix(f.name), ignored_extensions)

\* the call of refresh_dir, up to the loop over root_path.glob("**/*")
refresh_dir_start(tree) ==
    /\ scan.pc = "idle"
    /\ lib_root_path # 0
    /\ scan' = [pc |-> "running", todo |-> tree, notify |-> FALSE]
    /\ dir_file_count' = 0
    /\ lastOp' = [NoOp EXCEPT !.op = "refresh_dir_start"]
    /\ UNCHANGED <<navVars, thumbVars, mainVars, tagVars, queryVars, selVars,
                   settingsVars, libVars, scanners, auxVars>>

\* one iteration of the loop, for the file f
refresh_dir_step(f) ==
    /\ scan.pc = "running"
    /\ f \in scan.todo
    /\ scan' = [scan EXCEPT !.todo = @ \ {f}]
    /\ IF Counted(f)
       THEN /\ dir_file_count' = dir_file_count + 1
            /\ db_entries' =
                  IF ~path_in_db(f.rel, entries)
                  THEN Append(db_entries, [id |-> Len(db_entries) + 1,
                                           path |-> f.rel, fields |-> <<>>])
                  ELSE db_entries
       ELSE UNCHANGED <<dir_file_count, db_entries>>
    /\ lastOp' = [NoOp EXCEPT !.op = "refresh_dir_step", !.file = f.rel]
    /\ UNCHANGED <<tags, next_tag_id, tag_id_to_index_map, tag_id_to_cluster_map,
                   navVars, thumbVars, mainVars, queryVars, selVars,
                   settingsVars, libVars, scanners, auxVars>>

(***************************************************************************)
(* Library.refresh_dir run by several pool threads at once (every          *)
(* add_new_files_callback starts a runnable of its own on the global       *)
(* thread pool).  The threads share the store and dir_file_count and are   *)
(* switched between statements: taking the next file and reading the       *)
(* counter, writing the counter back, the transaction of path_in_db and    *)
(* the transaction of add_entry_to_library are steps of their own.         *)
(***************************************************************************)
\* number of Entry rows select(Entry.id).where(Entry.path == path) finds
PathMatches(path, rows) ==
    Cardinality({ k \in 1..Len(rows) : rows[k].path = path })

\* every file of the tree refresh_dir would count already has an entry
AllKnown(tree, rows) ==
    \A f \in tree : Counted(f) => path_in_db(f.rel, rows)

scanner_start(t, tree) ==
    /\ scanners[t].pc = "idle"
    /\ lib_root_path # 0
    /\ scanners' = [scanners EXCEPT ![t] =
                      [pc |-> "loop", todo |-> tree, file |-> "", loaded |-> 0,
                       known |-> AllKnown(tree, entries)]]
    /\ dir_file_count' = 0
    /\ lastOp' = [NoOp EXCEPT !.op = "scanner_start", !.path = t]
    /\ UNCHANGED <<tagVars, scan, navVars, thumbVars, mainVars, queryVars,
                   selVars, settingsVars, libVars, auxVars>>

\* the loop takes the next file; for a file that counts, the first half of
\* self.dir_file_count += 1 reads the counter
scanner_next(t, f) ==
    /\ scanners[t].pc = "loop"
    /\ f \in scanners[t].todo
    /\ dir_file_count < MaxFileCount
    /\ scanners' = [scanners EXCEPT
                      ![t].todo = @ \ {f},
                      ![t].pc = IF Counted(f) THEN "count" ELSE "loop",
                      ![t].file = IF Counted(f) THEN f.rel ELSE "",
                      ![t].loaded = IF Counted(f) THEN dir_file_count ELSE 0]
    /\ lastOp' = [NoOp EXCEPT !.op = "scanner_next", !.path = t, !.file = f.rel]
    /\ UNCHANGED <<tagVars, scan, dir_file_count, navVars, thumbVars, mainVars,
                   queryVars, selVars, settingsVars, libVars, auxVars>>

\* the second half of self.dir_file_count += 1 writes the counter back
scanner_count(t) ==
    /\ scanners[t].pc = "count"
    /\ dir_file_count' = scanners[t].loaded + 1
    /\ scanners' = [scanners EXCEPT ![t].pc = "check", ![t].loaded = 0]
    /\ lastOp' = [NoOp EXCEPT !.op = "scanner_count", !.path = t]
    /\ UNCHANGED <<tagVars, scan, navVars, thumbVars, mainVars, queryVars,
                   selVars, settingsVars, libVars, auxVars>>

\* path_in_db(relative_path): one_or_none() raises MultipleResultsFound when
\* more than one row has the path, which ends the scan
scanner_check(t) ==
    /\ scanners[t].pc = "check"
    /\ LET n == PathMatches(scanners[t].file, entries)
       IN  /\ scanners' = [scanners EXCEPT
                 ![t].pc = IF n > 1 THEN "raised"
                           ELSE IF n = 1 THEN "loop" ELSE "insert",
                 ![t].file = IF n = 0 THEN @ ELSE ""]
           /\ lastOp' = [NoOp EXCEPT
                 !.op = "scanner_check", !.path = t,
                 !.outcome = IF n > 1 THEN "MultipleResultsFound" ELSE ""]
    /\ UNCHANGED <<tagVars, scan, dir_file_count, navVars, thumbVars, mainVars,
                   queryVars, selVars, settingsVars, libVars, auxVars>>

\* self.add_entry_to_library(entry=Entry(path=relative_path))
scanner_insert(t) ==
    /\ scanners[t].pc = "insert"
    /\ db_entries' = Append(db_entries, [id |-> Len(db_entries) + 1,
                                         path |-> scanners[t].file,
                                         fields |-> <<>>])
    /\ scanners' = [scanners EXCEPT ![t].pc = "loop", ![t].file = ""]
    /\ lastOp' = [NoOp EXCEPT !.op = "scanner_insert", !.path = t,
                              !.file = scanners[t].file,
                              !.again = scanners[t].known]
    /\ UNCHANGED <<tags, next_tag_id, tag_id_to_index_map, tag_id_to_cluster_map,
                   scan, dir_file_count, navVars, thumbVars, mainVars,
                   queryVars, selVars, settingsVars, libVars, auxVars>>

\* the generator is exhausted, or the exception has ended the runnable
scanner_end(t) ==
    /\ \/ scanners[t].pc = "loop" /\ scanners[t].todo = {}
       \/ scanners[t].pc = "raised"
    /\ scanners' = [scanners EXCEPT ![t] = NoScanner]
    /\ lastOp' = [NoOp EXCEPT !.op = "scanner_end", !.path = t]
    /\ UNCHANGED <<tagVars, scan, dir_file_count, navVars, thumbVars, mainVars,
                   queryVars, selVars, settingsVars, libVars, auxVars>>

(***************************************************************************)
(* QtDriver.filter_items                                                   *)
(***************************************************************************)
\* itertools.batched(items, n) as a list of lists
RECURSIVE batched(_, _)
batched(items, n) ==
    IF items = <<>> THEN <<>>
    ELSE IF Len(items) <= n THEN << items >>
         ELSE << SubSeq(items, 1, n) >> \o batched(SubSeq(items, n + 1, Len(items)), n)

\* QtDriver.get_frame_contents over a given frame_dict
get_frame_contents(fd, index, query) ==
    << IF fd[query] = <<>> THEN <<>> ELSE fd[query][index + 1],
       index, Len(fd[query]) >>

\* filter_items that refreshes the current record when the query is unchanged
FilterNavigate_RefreshInPlace(frames, idx, cq, query, st, sb_pos) ==
    IF cq = query /\ frames # <<>>
    THEN << [frames EXCEPT ![PyIdx(frames, idx)] = st], idx >>
    ELSE NavForwardFrom(frames, idx, TRUE, st, sb_pos)

\* the two branches on self.cur_query == query: both navigate forward
FilterNavigate(frames, idx, cq, query, st, sb_pos) ==
    IF cq = query
    THEN NavForwardFrom(frames, idx, TRUE, st, sb_pos)
    ELSE NavForwardFrom(frames, idx, TRUE, st, sb_pos)

\* frame_dict after filter_items(query) found all_items
FrameDictAfter(query, all_items) ==
    [k \in DOMAIN frame_dict \cup {query} |->
        IF k = query THEN batched(all_items, MaxResults) ELSE frame_dict[k]]

\* the body of filter_items(query) run at clock value t0 with the history
\* frames at idx, the previous query cq, the selection sel and the results
\* all_items
FilterItemsFrom(t0, frames, idx, cq, sel, query, all_items, ticks) ==
    LET fd == FrameDictAfter(query, all_items)
        args == get_frame_contents(fd, 0, query)
        st == NavigationState(args[1], 0, args[2], args[3], search_field)
        res == FilterNavigate(frames, idx, cq, query, st, scroll_value)
        frames2 == res[1]
        idx2 == res[2]
    IN  /\ Len(frames2) <= MaxNavFrames
        /\ frame_dict' = fd
        /\ nav_frames' = frames2
        /\ cur_frame_idx' = idx2
        /\ IF NeedsRedraw(idx2, idx, TRUE)
           THEN /\ update_thumbs_with(t0, frames2, idx2, ticks, sel)
                /\ restore_gui(frames2, idx2)
           ELSE UNCHANGED <<thumbVars, scroll_value, search_field, pagination>>
        /\ cur_query' = query

filter_items(query, ticks) ==
    /\ main_pc = "running"
    /\ FilterItemsFrom(now, nav_frames, cur_frame_idx, cur_query, selected,
                       query, search_library(query), ticks)
    /\ lastOp' = [NoOp EXCEPT
                  !.op = "filter_items", !.has_content = TRUE,
                  !.frame_content =
                      get_frame_contents(FrameDictAfter(query, search_library(query)),
                                         0, query)[1],
                  !.query = query,
                  !.prev_query = IF frame_dict = <<>> THEN "none"
                                 ELSE "=" \o cur_query,
                  !.pre_idx = cur_frame_idx, !.pre_len = Len(nav_frames),
                  !.pre_empty = /\ nav_frames # <<>>
                                /\ nav_frames[PyIdx(nav_frames, cur_frame_idx)].contents = <<>>,
                  !.redrawn = TRUE]
    /\ UNCHANGED <<mainVars, tagVars, selVars, settingsVars, libVars, scanVars,
                   auxVars>>

\* the end of a directory scan: the generator is exhausted; a scan started
\* by QtDriver.add_new_files_callback then refreshes the results
refresh_dir_end(ticks) ==
    /\ scan.pc = "running"
    /\ scan.todo = {}
    /\ scan' = NoScan
    /\ IF scan.notify
       THEN /\ main_pc = "running"
            /\ FilterItemsFrom(now, nav_frames, cur_frame_idx, cur_query,
                               selected, "", search_library(""), ticks)
       ELSE UNCHANGED <<navVars, thumbVars, queryVars>>
    /\ lastOp' = [NoOp EXCEPT !.op = "refresh_dir_end"]
    /\ UNCHANGED <<mainVars, tagVars, selVars, settingsVars, libVars,
                   dir_file_count, scanners, auxVars>>

(***************************************************************************)
(* QtDriver.select_item, called by the click handler update_thumbs bound   *)
(* to a grid cell.  The preview panel it refreshes at the end is not       *)
(* represented.                                                            *)
(***************************************************************************)
\* list.index(x) as a 0-based index; -1 stands for the ValueError it raises
ListIndex(s, x) ==
    IF \E k \in 1..Len(s) : s[k] = x
    THEN (CHOOSE k \in 1..Len(s) : s[k] = x /\ \A j \in 1..(k - 1) : s[j] # x) - 1
    ELSE -1
\* list.reverse()
Reversed(s) == [k \in 1..Len(s) |-> s[Len(s) + 1 - k]]
\* s[lo : hi] for 0 <= lo
PySlice(s, lo, hi) == SubSeq(s, lo + 1, Min(hi, Len(s)))

\* thumb_button.set_selected(v) on every cell showing (type, id)
MarkCells(cells, type, id, v) ==
    [i \in 1..MaxResults |->
       IF cells[i].mode = type /\ cells[i].item_id = id
       THEN [cells[i] EXCEPT !.selected = v] ELSE cells[i]]

\* the bridge loop over index_range from position k: <<selected, cells>>
RECURSIVE BridgeLoop(_, _, _, _)
BridgeLoop(sel, cells, index_range, k) ==
    IF k > Len(index_range) THEN << sel, cells >>
    ELSE LET c_type == index_range[k][1]
             c_id == index_range[k][2]
             shown == \E i \in 1..MaxResults :
                         cells[i].mode = c_type /\ cells[i].item_id = c_id
             sel2 == IF shown /\ ~In(<<c_type, c_id>>, sel)
                     THEN Append(sel, <<c_type, c_id>>) ELSE sel
         IN  BridgeLoop(sel2, MarkCells(cells, c_type, c_id, TRUE), index_range, k + 1)

\* the bridge branch: <<outcome, selected, cells>>
Bridge(type, id) ==
    LET contents == nav_frames[PyIdx(nav_frames, cur_frame_idx)].contents
        last_index == ListIndex(contents, selected[Len(selected)])
        current_index == ListIndex(contents, <<type, id>>)
        lo == Min(last_index, current_index)
        hi == IF last_index > current_index THEN last_index ELSE current_index
        slice == PySlice(contents, lo, hi + 1)
        index_range == IF last_index < current_index THEN Reversed(slice) ELSE slice
    IN  IF nav_frames = <<>> THEN << "IndexError", selected, item_thumbs >>
        ELSE IF last_index = -1 \/ current_index = -1
        THEN << "ValueError", selected, item_thumbs >>
        \* for c_type, c_id in index_range: unpacks pairs only
        ELSE IF \E k \in 1..Len(index_range) : Len(index_range[k]) # 2
        THEN << "ValueError", selected, item_thumbs >>
        ELSE LET r == BridgeLoop(selected, item_thumbs, index_range, 1)
             IN  << "returns", r[1], r[2] >>

\* the append branch with the membership test inverted
ToggleResult_Inverted(type, id) ==
    IF In(<<type, id>>, selected)
    THEN << Append(selected, <<type, id>>), MarkCells(item_thumbs, type, id, TRUE) >>
    ELSE << ListRemove(selected, <<type, id>>),
            MarkCells(item_thumbs, type, id, FALSE) >>

\* the append branch: <<selected, cells>>
ToggleResult(type, id) ==
    IF ~In(<<type, id>>, selected)
    THEN << Append(selected, <<type, id>>), MarkCells(item_thumbs, type, id, TRUE) >>
    ELSE << ListRemove(selected, <<type, id>>),
            MarkCells(item_thumbs, type, id, FALSE) >>

\* a click on grid cell i with the modifier keys giving append and bridge
select_item(i, append, bridge) ==
    LET type == "ENTRY"
        id == item_thumbs[i].item_id
    IN  /\ main_pc = "running"
        /\ item_thumbs[i].mode = "ENTRY"
        /\ id # -1
        /\ IF append
           THEN /\ selected' = ToggleResult(type, id)[1]
                /\ item_thumbs' = ToggleResult(type, id)[2]
                /\ lastOp' = [NoOp EXCEPT !.op = "select_item", !.click = "ctrl",
                                          !.tag_id = id, !.outcome = "returns"]
           ELSE IF bridge /\ selected # <<>>
           THEN /\ selected' = Bridge(type, id)[2]
                /\ item_thumbs' = Bridge(type, id)[3]
                /\ lastOp' = [NoOp EXCEPT !.op = "select_item", !.click = "shift",
                                          !.tag_id = id,
                                          !.outcome = Bridge(type, id)[1]]
           ELSE /\ selected' = << <<type, id>> >>
                /\ item_thumbs' = [k \in 1..MaxResults |->
                      [item_thumbs[k] EXCEPT !.selected =
                          (item_thumbs[k].mode = type /\ item_thumbs[k].item_id = id)]]
                /\ lastOp' = [NoOp EXCEPT !.op = "select_item", !.click = "plain",
                                          !.tag_id = id, !.outcome = "returns"]
        /\ UNCHANGED <<navVars, update_cutoff, now, thumb_job_queue, consumers,
                       gui_events, mainVars, tagVars, queryVars, settingsVars,
                       libVars, scanVars, auxVars>>

(***************************************************************************)
(* QtDriver.update_libs_list: the recent-libraries group of the settings.  *)
(* Keys are str(time.time()), written here as the decimal digits of the    *)
(* whole seconds; a path is the normalised Path it converts to.            *)
(***************************************************************************)
\* the decimal digits of n, most significant first
RECURSIVE Digits(_)
Digits(n) == IF n < 10 THEN << n >> ELSE Append(Digits(n \div 10), n % 10)
\* str(time.time()) for the clock value t
TimeKey(t) == Digits(EpochBase + t)
\* a < b for strings, character by character
RECURSIVE StrLess(_, _)
StrLess(a, b) ==
    IF b = <<>> THEN FALSE
    ELSE IF a = <<>> THEN TRUE
    ELSE IF Head(a) # Head(b) THEN Head(a) < Head(b)
    ELSE StrLess(Tail(a), Tail(b))
\* sorted(d.items(), key=lambda item: item[0], reverse=True)
RECURSIVE SortedItemsDesc(_)
SortedItemsDesc(d) ==
    IF DOMAIN d = {} THEN <<>>
    ELSE LET top == CHOOSE k \in DOMAIN d :
                       \A j \in DOMAIN d \ {k} : StrLess(j, k)
         IN  << <<top, d[top]>> >> \o
             SortedItemsDesc([k \in DOMAIN d \ {top} |-> d[k]])

\* the settings group update_libs_list writes for a given key
LibsListAfter_NoDedup(key, path) ==
    LET all_libs == [k \in {key} \cup DOMAIN libs_list |->
                       IF k \in DOMAIN libs_list THEN libs_list[k] ELSE path]
        kept == PyPrefix(SortedItemsDesc(all_libs), ITEMS_LIMIT)
    IN  [k \in {kept[i][1] : i \in 1..Len(kept)} |-> all_libs[k]]

LibsListAfter(key, path) ==
    LET old == {k \in DOMAIN libs_list : libs_list[k] # path}
        \* {key: path} first, then every other entry of the group
        all_libs == [k \in {key} \cup old |->
                       IF k \in old THEN libs_list[k] ELSE path]
        kept == PyPrefix(SortedItemsDesc(all_libs), ITEMS_LIMIT)
    IN  [k \in {kept[i][1] : i \in 1..Len(kept)} |-> all_libs[k]]

\* update_libs_list(path); the clock has advanced by tick since it was last read
update_libs_list(path, tick) ==
    /\ main_pc = "running"
    /\ now + tick <= MaxOpens
    /\ now' = now + tick
    /\ libs_list' = LibsListAfter(TimeKey(now + tick), path)
    /\ lastOp' = [NoOp EXCEPT !.op = "update_libs_list", !.path = path]
    /\ UNCHANGED <<navVars, item_thumbs, update_cutoff, thumb_job_queue,
                   consumers, gui_events, mainVars, tagVars, queryVars, selVars,
                   libVars, scanVars, auxVars>>

(***************************************************************************)
(* Opening a library.  The Library object and the disk are handled as one  *)
(* record while the calls of an open follow each other: root is root_path  *)
(* (0 for None), engine the schema file the engine is connected to, files  *)
(* the schema files on disk, rows the Entry rows of the connected file,    *)
(* count is dir_file_count and cleared tells whether clear_internal_vars   *)
(* ran.                                                                    *)
(***************************************************************************)
LibNow ==
    [root |-> lib_root_path, engine |-> engine, files |-> schema_files,
     rows |-> db_entries, count |-> dir_file_count, cleared |-> FALSE]

\* Library.clear_internal_vars; the engine stays as it is
clear_internal_vars(lib) ==
    [lib EXCEPT !.root = 0, !.count = -1, !.cleared = TRUE]

\* make_engine(connection_string) followed by make_tables(engine) for the
\* schema file f: the file is created with empty tables when it is missing,
\* an existing file keeps its rows
make_engine(lib, f) ==
    LET saved == IF lib.engine \in DOMAIN lib.files
                 THEN [lib.files EXCEPT ![lib.engine].entries = lib.rows]
                 ELSE lib.files
        files == IF f \in DOMAIN saved THEN saved
                 ELSE saved @@ (f :> [tags |-> <<>>, entries |-> <<>>])
    IN  [lib EXCEPT !.engine = f, !.files = files, !.rows = files[f].entries]

\* Library.create_library(path); fault: verify_ts_folders raises (the folders
\* cannot be created), which the except clause turns into False
create_library(lib, path, fault) ==
    LET l1 == [clear_internal_vars(lib) EXCEPT !.root = path]
        l2 == make_engine(l1, SchemaFile(path, "ts"))
    IN  IF fault THEN [ok |-> FALSE, lib |-> l1]
        ELSE [ok |-> TRUE,
              lib |-> [l2 EXCEPT !.files[l2.engine].tags = @ \o library_defaults]]

\* Library.open_library(path)
Library_open_library(lib, path, fault) ==
    LET sqlite_path == SchemaFile(path, "top")
    IN  IF sqlite_path \in DOMAIN lib.files
        THEN [ok |-> TRUE, lib |-> make_engine(lib, sqlite_path)]
        ELSE create_library(lib, path, fault)

\* the Library object and the disk after the calls QtDriver.open_library
\* makes on self.lib; opened is what Library.open_library returned
OpenLibraryCalls(path, fault) ==
    LET l0 == IF lib_root_path # 0 THEN clear_internal_vars(LibNow) ELSE LibNow
        r1 == Library_open_library(l0, path, fault)
    IN  IF ~r1.ok THEN [opened |-> FALSE, lib |-> r1.lib]
        ELSE [opened |-> TRUE, lib |-> create_library(r1.lib, path, fault).lib]

\* QtDriver.open_library(path).  tree is what the scan started by
\* add_new_files_callback will find under the root; tick is the time that
\* passed before update_libs_list reads the clock.
open_library(path, fault, tree, tick, ticks) ==
    LET r == OpenLibraryCalls(path, fault)
        lib == r.lib
    IN  /\ main_pc = "running"
        /\ scan.pc = "idle"
        \* every open adds the default tags once more: MaxDbTags caps them
        /\ engine \in DOMAIN schema_files =>
              Len(schema_files[engine].tags) <= MaxDbTags
        /\ lib_root_path' = lib.root
        /\ engine' = lib.engine
        /\ schema_files' = lib.files
        /\ db_entries' = lib.rows
        /\ IF lib.cleared
           THEN /\ tags' = <<>>
                /\ next_tag_id' = FirstTagId
                /\ tag_id_to_index_map' = <<>>
                /\ tag_id_to_cluster_map' = <<>>
           ELSE UNCHANGED <<tags, next_tag_id, tag_id_to_index_map,
                            tag_id_to_cluster_map>>
        /\ IF r.opened
           THEN /\ scan' = [pc |-> "running", todo |-> tree, notify |-> TRUE]
                /\ dir_file_count' = 0
           ELSE /\ scan' = scan
                /\ dir_file_count' = lib.count
        /\ libs_list' = LibsListAfter(TimeKey(now + tick), path)
        /\ window_title' = lib.root
        /\ selected' = <<>>
        /\ FilterItemsFrom(now + tick, <<>>, -1, "", <<>>, "",
                           IF lib.engine = NoEngine THEN <<>>
                           ELSE SearchResults(lib.rows), ticks)
        /\ lastOp' = [NoOp EXCEPT
                      !.op = "open_library", !.path = path,
                      !.outcome = IF r.opened THEN "opened" ELSE "failed"]
        /\ UNCHANGED <<mainVars, scanners, auxVars>>

\* QtDriver.close_library: nothing happens without an open library;
\* otherwise the library object is cleared, the history, the query and the
\* selection are reset and filter_items() shows what the search returns
close_library(ticks) ==
    /\ main_pc = "running"
    /\ IF lib_root_path # 0
       THEN /\ lib_root_path' = 0
            /\ dir_file_count' = -1
            /\ tags' = <<>>
            /\ next_tag_id' = FirstTagId
            /\ tag_id_to_index_map' = <<>>
            /\ tag_id_to_cluster_map' = <<>>
            /\ window_title' = 0
            /\ selected' = <<>>
            /\ FilterItemsFrom(now, <<>>, -1, "", <<>>, "", search_library(""),
                               ticks)
            /\ lastOp' = [NoOp EXCEPT !.op = "close_library",
                                      !.outcome = "closed", !.redrawn = TRUE]
       ELSE /\ lastOp' = [NoOp EXCEPT !.op = "close_library"]
            /\ UNCHANGED <<navVars, thumbVars, queryVars, selVars, tags,
                           next_tag_id, tag_id_to_index_map,
                           tag_id_to_cluster_map, lib_root_path, window_title,
                           dir_file_count>>
    /\ UNCHANGED <<mainVars, db_entries, settingsVars, engine, schema_files,
                   scan, scanners, auxVars>>

(***************************************************************************)
(* Library.get_all_child_tag_ids.  The function reads the Tag rows of the  *)
(* store (a row's id is its position) and calls itself once per subtag;    *)
(* walk.stack holds the frames of the calls in progress, the outermost     *)
(* first.  A frame keeps the ids its for loop has still to visit and the   *)
(* set all_subtags it has gathered.                                        *)
(***************************************************************************)
\* the Tag rows of the store the engine is connected to
db_tags == IF engine \in DOMAIN schema_files THEN schema_files[engine].tags
           ELSE <<>>

\* Tag.subtag_ids
subtag_ids(rows, tag_id) == rows[tag_id].subtags

\* number of subtag links in the store
LinkCount(rows) ==
    Cardinality({ pc \in (1..Len(rows)) \X (1..Len(rows)) :
                     pc[2] \in rows[pc[1]].subtags })

\* depth at which the interpreter ends a recursion with RecursionError; any
\* chain without a repeated tag is shorter
RecursionLimit == MaxDbTags + 1

\* Tag.add_subtag(tag, session) on the row parent, committed; what an
\* earlier get_all_child_tag_ids call returned is no longer held
add_subtag(parent, child) ==
    /\ walk.status # "running"
    /\ engine \in DOMAIN schema_files
    /\ parent \in 1..Len(db_tags)
    /\ IF child \in 1..Len(db_tags)
       THEN /\ child \notin subtag_ids(db_tags, parent) =>
                  LinkCount(db_tags) < MaxLinks
            /\ schema_files' =
                 [schema_files EXCEPT ![engine].tags[parent].subtags =
                                         @ \cup {child}]
            /\ lastOp' = [NoOp EXCEPT !.op = "add_subtag"]
       ELSE /\ UNCHANGED schema_files
            /\ lastOp' = [NoOp EXCEPT !.op = "add_subtag",
                                      !.outcome = "ValueError"]
    /\ walk' = NoWalk
    /\ UNCHANGED <<navVars, thumbVars, mainVars, tagVars, queryVars, selVars,
                   settingsVars, lib_root_path, engine, window_title,
                   scanVars, collage>>

\* Library.create_library(path) called on the library object as it is
Library_create_library(path) ==
    LET r == create_library(LibNow, path, FALSE)
    IN  /\ walk.status # "running"
        /\ scan.pc = "idle"
        /\ Len(r.lib.files[r.lib.engine].tags) <= MaxDbTags
        /\ lib_root_path' = r.lib.root
        /\ engine' = r.lib.engine
        /\ schema_files' = r.lib.files
        /\ db_entries' = r.lib.rows
        /\ dir_file_count' = r.lib.count
        /\ tags' = <<>>
        /\ next_tag_id' = FirstTagId
        /\ tag_id_to_index_map' = <<>>
        /\ tag_id_to_cluster_map' = <<>>
        /\ lastOp' = [NoOp EXCEPT !.op = "create_library", !.path = path]
        /\ walk' = NoWalk
        /\ UNCHANGED <<navVars, thumbVars, mainVars, queryVars, selVars,
                       settingsVars, window_title, scan, scanners, collage>>

\* the ids the for loop of a call on tag_id recurses into, with a guard that
\* skips the ids of the calls already in progress
ChildCalls_Guarded(rows, tag_id, stack) ==
    subtag_ids(rows, tag_id)
       \ ({tag_id} \cup { stack[k].tag_id : k \in 1..Len(stack) })

\* the ids the for loop of a call on tag_id recurses into
ChildCalls(rows, tag_id, stack) == subtag_ids(rows, tag_id)

\* the frame of a call on tag_id once its session block has run
Frame(rows, tag_id, stack) ==
    [tag_id |-> tag_id,
     todo |-> ChildCalls(rows, tag_id, stack),
     all_subtags |-> {tag_id} \cup subtag_ids(rows, tag_id)]

\* the outermost call
get_all_child_tag_ids(tag_id) ==
    /\ walk.status # "running"
    /\ engine \in DOMAIN schema_files
    /\ IF tag_id \in 1..Len(db_tags)
       THEN walk' = [status |-> "running", start |-> tag_id,
                     stack |-> << Frame(db_tags, tag_id, <<>>) >>,
                     result |-> {}]
       ELSE walk' = [status |-> "ValueError", start |-> tag_id,
                     stack |-> <<>>, result |-> {}]
    /\ lastOp' = [NoOp EXCEPT !.op = "get_all_child_tag_ids",
                              !.tag_id = tag_id, !.outcome = walk'.status]
    /\ UNCHANGED <<navVars, thumbVars, mainVars, tagVars, queryVars, selVars,
                   settingsVars, libVars, scanVars, collage>>

\* self.get_all_child_tag_ids(sub_id) inside the for loop of the innermost
\* call: one more frame, or RecursionError out of every frame when the
\* interpreter's limit is reached
child_call ==
    /\ walk.status = "running"
    /\ LET n == Len(walk.stack)
           top == walk.stack[n]
       IN  /\ top.todo # {}
           /\ \E sub_id \in top.todo :
                IF n >= RecursionLimit
                THEN walk' = [walk EXCEPT !.status = "RecursionError",
                                          !.stack = <<>>]
                ELSE walk' = [walk EXCEPT
                       !.stack = Append(
                          [walk.stack EXCEPT ![n].todo = @ \ {sub_id}],
                          Frame(db_tags, sub_id, walk.stack))]
    /\ lastOp' = [NoOp EXCEPT !.op = "get_all_child_tag_ids",
                              !.tag_id = walk.start,
                              !.outcome = walk'.status]
    /\ UNCHANGED <<navVars, thumbVars, mainVars, tagVars, queryVars, selVars,
                   settingsVars, libVars, scanVars, collage>>

\* return list(all_subtags) of the innermost call; the caller's
\* all_subtags.update takes the ids in
child_return ==
    /\ walk.status = "running"
    /\ LET n == Len(walk.stack)
           top == walk.stack[n]
       IN  /\ top.todo = {}
           /\ IF n = 1
              THEN walk' = [walk EXCEPT !.status = "returned",
                                        !.stack = <<>>,
                                        !.result = top.all_subtags]
              ELSE walk' = [walk EXCEPT
                     !.stack = [SubSeq(walk.stack, 1, n - 1) EXCEPT
                                  ![n - 1].all_subtags =
                                      @ \cup top.all_subtags]]
    /\ lastOp' = [NoOp EXCEPT !.op = "get_all_child_tag_ids",
                              !.tag_id = walk.start,
                              !.outcome = walk'.status]
    /\ UNCHANGED <<navVars, thumbVars, mainVars, tagVars, queryVars, selVars,
                   settingsVars, libVars, scanVars, collage>>

(***************************************************************************)
(* Initial state: QtDriver.__init__, Library.__init__ and a library just   *)
(* created at root 1 by Library.create_library                             *)
(***************************************************************************)
Init ==
    /\ nav_frames = <<>>
    /\ cur_frame_idx = -1
    /\ scroll_value = 0
    /\ search_field = ""
    /\ pagination = [count |-> 0, index |-> 0]
    /\ item_thumbs = [i \in 1..MaxResults |->
          [mode |-> "NONE", item_id |-> -1, icon |-> "", icon_size |-> "",
           full_applied |-> FALSE,
           selected |-> FALSE]]
    /\ update_cutoff = 0
    /\ now = 0
    /\ thumb_job_queue = <<>>
    /\ consumers = [w \in Workers |-> [pc |-> "get", job |-> NoJob, markers |-> 0]]
    /\ gui_events = <<>>
    /\ main_pc = "running"
    /\ joined = 0
    /\ tags = <<>>
    /\ next_tag_id = FirstTagId
    /\ tag_id_to_index_map = <<>>
    /\ tag_id_to_cluster_map = <<>>
    /\ db_entries = <<>>
    /\ cur_query = ""
    /\ frame_dict = <<>>
    /\ selected = <<>>
    /\ libs_list = <<>>
    /\ lib_root_path = 1
    /\ engine = SchemaFile(1, "ts")
    /\ schema_files = (SchemaFile(1, "ts") :>
                          [tags |-> library_defaults, entries |-> <<>>])
    /\ window_title = "base"
    /\ scan = NoScan
    /\ dir_file_count = -1
    /\ scanners = [t \in ScanThreads |-> NoScanner]
    /\ walk = NoWalk
    /\ collage = NoCollage
    /\ lastOp = NoOp

(***************************************************************************)
(* Navigation on its own: the handlers and the user's input                *)
(***************************************************************************)
NextNav ==
    \/ \E a \in NavInputs, tk \in NoTicks : nav_forward(TRUE, a[1], a[2], a[3], tk)
    \/ \E tk \in NoTicks : nav_forward(FALSE, <<>>, 0, 0, tk)
    \/ \E tk \in NoTicks : nav_back(tk)
    \/ \E v \in ScrollValues : UserScroll(v)
    \/ \E t \in SearchTexts : UserType(t)

SpecNav == Init /\ [][NextNav]_vars

(***************************************************************************)
(* The thumbnail pipeline: grid refreshes while the clock runs, workers    *)
(* rendering, delivery of the results to the cells                         *)
(***************************************************************************)
NextThumbs ==
    \/ \E c \in ThumbContents, tk \in AllTicks : nav_forward(TRUE, c, 0, 0, tk)
    \/ \E tk \in AllTicks : nav_back(tk)
    \/ \E w \in Workers : ConsumerGet(w)
    \/ \E w \in Workers : ConsumerRun(w, "returns")
    \/ DeliverUpdated

SpecThumbs == Init /\ [][NextThumbs]_vars

(***************************************************************************)
(* The worker threads' life cycle: jobs that return or raise, shutdown     *)
(***************************************************************************)
NextWorkers ==
    \/ \E c \in ThumbContents, tk \in NoTicks : nav_forward(TRUE, c, 0, 0, tk)
    \/ \E w \in Workers : ConsumerGet(w)
    \/ \E w \in Workers, o \in JobOutcomes : ConsumerRun(w, o)
    \/ DeliverUpdated
    \/ shutdown
    \/ shutdown_wait

SpecWorkers == Init /\ [][NextWorkers]_vars

(***************************************************************************)
(* The tag operations of an open library                                   *)
(***************************************************************************)
TagIds == FirstTagId..(FirstTagId + MaxTags - 1)

NextTags ==
    \/ \E g \in {-1} \cup TagIds, subs \in ListsOver(TagIds) :
          add_tag_to_library(g, subs)
    \/ \E t \in TagIds : remove_tag(t)
    \/ \E c \in ListsOver(TagIds) :
          /\ \A k \in 1..Len(c) : c[k] \in DOMAIN tag_id_to_index_map
          /\ add_entry_to_library("a.png",
                << [id |-> content_tags_field_id, content |-> c] >>)

SpecTags == Init /\ [][NextTags]_vars

(***************************************************************************)
(* The tag list and its index map: tags added with at most one subtag,     *)
(* tags removed, with and without an entry that carries a field            *)
(***************************************************************************)
SubtagChoices == { <<>> } \cup { << t >> : t \in TagIds }

NextTagIndex ==
    \/ \E subs \in SubtagChoices : add_tag_to_library(-1, subs)
    \/ \E t \in TagIds : remove_tag(t)
    \/ add_entry_to_library("a.png",
          << [id |-> content_tags_field_id, content |-> <<>>] >>)

SpecTagIndex == Init /\ [][NextTagIndex]_vars

(***************************************************************************)
(* Searching: filter_items over a library that gains entries, with the     *)
(* history buttons                                                         *)
(***************************************************************************)
Queries == {"", "q"}
EntryPaths == {"a.png", "b.png"}

NextFilter ==
    \/ \E q \in Queries, tk \in NoTicks : filter_items(q, tk)
    \/ \E p \in EntryPaths : add_entry_to_library(p, <<>>)
    \/ \E tk \in NoTicks : nav_back(tk)
    \/ \E tk \in NoTicks : nav_forward(FALSE, <<>>, 0, 0, tk)
    \/ \E t \in SearchTexts : UserType(t)

SpecFilter == Init /\ [][NextFilter]_vars

(***************************************************************************)
(* Selecting: frames shown in the grid and clicks on their cells           *)
(***************************************************************************)
\* (append, bridge) for a click with Ctrl, with Shift and with neither
ClickModifiers == { <<TRUE, FALSE>>, <<FALSE, TRUE>>, <<FALSE, FALSE>> }

NextSelect ==
    \/ \E a \in NavInputs, tk \in NoTicks : nav_forward(TRUE, a[1], a[2], a[3], tk)
    \/ \E tk \in NoTicks : nav_back(tk)
    \/ \E i \in 1..MaxResults, m \in ClickModifiers : select_item(i, m[1], m[2])

SpecSelect == Init /\ [][NextSelect]_vars

(***************************************************************************)
(* Recent libraries: one update_libs_list per library opened, each later   *)
(* than the one before.  Paths are numbered in the order the user first    *)
(* opens them, so the n-th call opens one of the paths 1..n.               *)
(***************************************************************************)
LibPaths == 1..MaxLibPaths

NextLibs ==
    \E p \in LibPaths : p <= now + 1 /\ update_libs_list(p, 1)

SpecLibs == Init /\ [][NextLibs]_vars

(***************************************************************************)
(* Scanning: directory scans of the open library, one after the other,     *)
(* over trees that change between scans                                    *)
(***************************************************************************)
NextScan ==
    \/ \E tree \in SUBSET ScanFiles : refresh_dir_start(tree)
    \/ \E f \in ScanFiles : refresh_dir_step(f)
    \/ \E ticks \in NoTicks : refresh_dir_end(ticks)

SpecScan == Init /\ [][NextScan]_vars

(***************************************************************************)
(* Opening libraries: roots are opened one after the other, each open      *)
(* waits for the scan of the previous one, and between opens the user      *)
(* clicks cells and creates tags                                           *)
(***************************************************************************)
OpenRoots == {1, 2}
OpenTrees == SUBSET {f \in ScanFiles : f.rel \in {"a.png", "b.JSON"}}

NextOpen ==
    \/ \E path \in OpenRoots, fault \in BOOLEAN, tree \in OpenTrees,
          ticks \in NoTicks :
          open_library(path, fault, tree, 1, ticks)
    \/ \E f \in ScanFiles : refresh_dir_step(f)
    \/ \E ticks \in NoTicks : refresh_dir_end(ticks)
    \/ \E i \in 1..MaxResults : select_item(i, FALSE, FALSE)
    \/ add_tag_to_library(-1, <<>>)

SpecOpen == Init /\ [][NextOpen]_vars

(***************************************************************************)
(* Entry fields: entries are stored with fields, then the field functions  *)
(* of the engine are called on them                                        *)
(***************************************************************************)
\* the ids of the tag-box fields: Tags, Content Tags, Meta Tags
TagBoxIds == {6, 7, 8}
FieldLists ==
    { <<>>,
      << [id |-> 6, content |-> << 1, 2 >>] >>,
      << [id |-> 0, content |-> "t1"], [id |-> 7, content |-> <<>>],
         [id |-> 5, content |->
             OriginalTagsNote(<< "animal", "cat", "cat_(animal)" >>)] >>,
      << [id |-> 7, content |-> << 0 >>], [id |-> 0, content |-> "t0"],
         [id |-> 6, content |-> << 1, 2 >>], [id |-> 6, content |-> << 2, 3 >>] >> }
FieldContents == { << 3 >>, << 1 >>, << 9 >>, << 1, 3 >>, << 3, 3 >> }
FieldModes == {"append", "extend", "replace", "remove"}
EntryIds == 1..MaxEntries
EntryIdLists == {<< a >> : a \in EntryIds}
                    \cup {<< a, b >> : a \in EntryIds, b \in EntryIds}

NextFields ==
    \/ \E path \in EntryPaths, fields \in FieldLists :
          add_entry_to_library(path, fields)
    \/ \E entry_id \in EntryIds, field_index \in {0, 1, -1},
          content \in FieldContents, mode \in FieldModes :
          /\ \E k \in 1..Len(db_entries) :
                /\ db_entries[k].id = entry_id
                /\ LET fields == db_entries[k].fields
                       pos == PyIdx(fields, field_index)
                   IN  pos \in 1..Len(fields) => fields[pos].id \in TagBoxIds
          /\ update_entry_field(entry_id, field_index, content, mode)
    \/ \E name \in DOMAIN DataRecords, entry_id \in EntryIds :
          add_generic_data_to_entry(name, entry_id)
    \/ \E entry_ids \in EntryIdLists : mirror_entry_fields(entry_ids)

SpecFields == Init /\ [][NextFields]_vars

(***************************************************************************)
(* The subtag graph of the store and get_all_child_tag_ids over it.  The   *)
(* call is an ordinary synchronous Python call: once started it keeps      *)
(* running until it returns or raises.                                     *)
(***************************************************************************)
DbTagIds == 1..MaxDbTags

NextChildren ==
    \/ \E path \in {lib_root_path} : Library_create_library(path)
    \/ \E parent \in DbTagIds, child \in DbTagIds : add_subtag(parent, child)
    \/ \E tag_id \in DbTagIds : get_all_child_tag_ids(tag_id)
    \/ child_call
    \/ child_return

SpecChildren ==
    /\ Init
    /\ [][NextChildren]_vars
    /\ WF_vars(child_call \/ child_return)

(***************************************************************************)
(* Refreshing the current record in place, between navigation steps        *)
(***************************************************************************)
NextRefresh ==
    \/ \E a \in NavInputs, tk \in NoTicks : nav_forward(TRUE, a[1], a[2], a[3], tk)
    \/ \E tk \in NoTicks : nav_back(tk)
    \/ \E c \in NavContents, tk \in NoTicks : refresh_frame(c, 0, 0, tk)

SpecRefresh == Init /\ [][NextRefresh]_vars

(***************************************************************************)
(* Collage export next to grid refreshes: every thread that can take a     *)
(* step eventually does, a running job eventually ends, and the event loop *)
(* delivers every signal it holds.                                         *)
(***************************************************************************)
NextCollage ==
    \/ \E p \in {"a.png"} : add_entry_to_library(p, <<>>)
    \/ create_collage
    \/ \E c \in ThumbContents, tk \in NoTicks : nav_forward(TRUE, c, 0, 0, tk)
    \/ \E w \in Workers : ConsumerGet(w)
    \/ \E w \in Workers : ConsumerRun(w, "returns")
    \/ \E w \in Workers : ConsumerRunCollage(w, "returns")
    \/ DeliverUpdated
    \/ try_save_collage

SpecCollage ==
    /\ Init
    /\ [][NextCollage]_vars
    /\ \A w \in Workers : WF_vars(ConsumerGet(w))
    /\ \A w \in Workers : WF_vars(ConsumerRun(w, "returns"))
    /\ \A w \in Workers : WF_vars(ConsumerRunCollage(w, "returns"))
    /\ WF_vars(DeliverUpdated)
    /\ WF_vars(try_save_collage)

(***************************************************************************)
(* ThumbRenderer.render over files that exist or not, of every extension   *)
(* class, wide, tall and square                                            *)
(***************************************************************************)
RenderPaths == {"", "a.png", "b.cr2", "c.mp4", "d.txt", "e.zip"}
PictureSizes == { <<8, 4>>, <<4, 8>>, <<3, 3>> }
BaseSizes == { <<4, 4>> }
RenderArgs ==
    { a \in [filepath : RenderPaths, exists : BOOLEAN,
             size : PictureSizes \cup { <<0, 0>> }, base_size : BaseSizes,
             is_loading : BOOLEAN, gradient : BOOLEAN,
             update_on_ratio_change : BOOLEAN] :
         (a.size = <<0, 0>>) <=> ~a.exists }

NextRender == \E a \in RenderArgs : render(a)

SpecRender == Init /\ [][NextRender]_vars

(***************************************************************************)
(* Scans of one unchanged tree running side by side and one after the      *)
(* other                                                                   *)
(***************************************************************************)
SharedTree == { f \in ScanFiles : f.rel \in {"a.png", "pics"} }

NextScanners ==
    \/ \E t \in ScanThreads : scanner_start(t, SharedTree)
    \/ \E t \in ScanThreads, f \in SharedTree : scanner_next(t, f)
    \/ \E t \in ScanThreads : scanner_count(t)
    \/ \E t \in ScanThreads : scanner_check(t)
    \/ \E t \in ScanThreads : scanner_insert(t)
    \/ \E t \in ScanThreads : scanner_end(t)

SpecScanners == Init /\ [][NextScanners]_vars

(***************************************************************************)
(* The history under every handler that changes it: libraries opened and   *)
(* closed, searches, the history buttons                                   *)
(***************************************************************************)
HistoryInputs == { a \in NavInputs : Len(a[1]) <= 1 }

NextHistory ==
    \/ \E fault \in BOOLEAN, ticks \in NoTicks :
          open_library(1, fault, {}, 0, ticks)
    \/ \E ticks \in NoTicks : refresh_dir_end(ticks)
    \/ \E ticks \in NoTicks : close_library(ticks)
    \/ \E q \in Queries, tk \in NoTicks : filter_items(q, tk)
    \/ \E a \in HistoryInputs, tk \in NoTicks :
          nav_forward(TRUE, a[1], a[2], a[3], tk)
    \/ \E tk \in NoTicks : nav_forward(FALSE, <<>>, 0, 0, tk)
    \/ \E tk \in NoTicks : nav_back(tk)

SpecHistory == Init /\ [][NextHistory]_vars

(***************************************************************************)
(* Worker life cycle under the scheduling the threads get: every thread    *)
(* that can take a step eventually does, a running job eventually ends,    *)
(* and shutdown() goes on once the thread it waits for has finished.       *)
(***************************************************************************)
SpecWorkersLive ==
    /\ SpecWorkers
    /\ \A w \in Workers : WF_vars(ConsumerGet(w))
    /\ \A w \in Workers : WF_vars(\E o \in JobOutcomes : ConsumerRun(w, o))
    /\ WF_vars(shutdown_wait)

(***************************************************************************)
(* Properties                                                              *)
(***************************************************************************)
\* the cells a frame occupies show that frame's items
GridShows(cells, contents) ==
    \A i \in 1..Min(Len(contents), MaxResults) :
        /\ cells[i].mode = contents[i][1]
        /\ cells[i].item_id = contents[i][2]

\* C1: nav_forward with new content D from the middle of the history (index i,
\* 0 <= i < n-1, current record non-empty) leaves old[0..i] followed by D with
\* the index at i+1; the records after i are gone and records 0..i keep their
\* frames.
C1_ForwardFromMiddleCutsBranch ==
    [][ ( /\ lastOp'.op = "nav_forward"
          /\ lastOp'.has_content
          /\ 0 <= cur_frame_idx
          /\ cur_frame_idx < Len(nav_frames) - 1
          /\ nav_frames[cur_frame_idx + 1].contents # <<>> )
        => ( /\ Len(nav_frames') = cur_frame_idx + 2
             /\ cur_frame_idx' = cur_frame_idx + 1
             /\ nav_frames'[cur_frame_idx + 2].contents = lastOp'.frame_content
             /\ \A k \in 1..(cur_frame_idx + 1) :
                   nav_frames'[k].contents = nav_frames[k].contents ) ]_vars

\* a state right after such a step that dropped at least one record
C1_Witness ==
    /\ lastOp.op = "nav_forward"
    /\ lastOp.has_content
    /\ lastOp.pre_idx >= 0
    /\ lastOp.pre_idx < lastOp.pre_len - 1
    /\ ~lastOp.pre_empty
    /\ lastOp.pre_len = 3
    /\ Len(nav_frames) = lastOp.pre_idx + 2
    /\ cur_frame_idx = lastOp.pre_idx + 1

\* C2: a render result of a job queued before the most recent cutoff bump is
\* never applied to a grid cell.
C2_StaleResultNeverApplied ==
    ~(lastOp.op = "deliver" /\ lastOp.applied /\ lastOp.stale)

\* the tags of the library, by id
TagIdsInLibrary == { tags[k].id : k \in 1..Len(tags) }
\* retrievable by id: get_tag(id) returns the tag with that id
Retrievable(id) ==
    /\ id \in DOMAIN tag_id_to_index_map
    /\ tag_id_to_index_map[id] + 1 \in 1..Len(tags)
    /\ get_tag(id).id = id

\* C3: after remove_tag(X), X is in no entry's tag-box content, in no tag's
\* subtag list, in no cluster list, has no cluster entry, get_tag(X) fails,
\* and every other tag is still retrievable by its id.
C3_RemoveTagCascade ==
    lastOp.op = "remove_tag" =>
        /\ \A e \in 1..Len(entries) : \A f \in 1..Len(entries[e].fields) :
              ~In(lastOp.tag_id, entries[e].fields[f].content)
        /\ \A k \in 1..Len(tags) : ~In(lastOp.tag_id, tags[k].subtag_ids)
        /\ \A key \in DOMAIN tag_id_to_cluster_map :
              ~In(lastOp.tag_id, tag_id_to_cluster_map[key])
        /\ get_tag_cluster(lastOp.tag_id) = <<>>
        /\ lastOp.tag_id \notin DOMAIN tag_id_to_index_map
        /\ \A id \in TagIdsInLibrary : Retrievable(id)

\* a lists t as a subtag, directly
Lists(a, t) == \E k \in 1..Len(tags) : tags[k].id = a /\ In(t, tags[k].subtag_ids)
\* a reaches t through at most n subtag links between tags of the library
RECURSIVE ListsWithin(_, _, _)
ListsWithin(a, t, n) ==
    IF n = 0 THEN FALSE
    ELSE \/ Lists(a, t)
         \/ \E m \in TagIdsInLibrary : Lists(a, m) /\ ListsWithin(m, t, n - 1)
TransitivelyLists(a, t) == ListsWithin(a, t, MaxTags)

C6_WorkerLeavesOnlyOnSentinel ==
    \A w \in Workers :
        /\ consumers[w].pc # "crashed"
        /\ consumers[w].pc = "exited" => consumers[w].markers = 1

\* C7: once shutdown has put one sentinel per worker, every worker ends and
\* every wait in shutdown returns; no worker takes more than one sentinel;
\* when a worker stops on a sentinel no job is left ahead of it in the queue.
C7_ShutdownTerminates ==
    /\ [](\A w \in Workers : consumers[w].markers <= 1)
    /\ [](\A w \in Workers : consumers[w].pc = "exited" =>
             \A k \in 1..Len(thumb_job_queue) : thumb_job_queue[k] = MARKER_QUIT)
    /\ (main_pc = "join") ~> (\A w \in Workers :
                                 consumers[w].pc \in {"exited", "crashed"})
    /\ (main_pc = "join") ~> (main_pc = "quit")

\* shutdown has returned and every worker stopped on its own sentinel
C7_Witness ==
    /\ main_pc = "quit"
    /\ \A w \in Workers : consumers[w].pc = "exited" /\ consumers[w].markers = 1

\* C8: nav_forward with new content over an empty current record replaces
\* that record (index unchanged, now designating the new record); hence only
\* the last record of the history can have an empty frame.
C8_EmptyFrameOnlyLast ==
    /\ [](\A k \in 1..(Len(nav_frames) - 1) : nav_frames[k].contents # <<>>)
    /\ [][ ( /\ lastOp'.op = "nav_forward"
             /\ lastOp'.has_content
             /\ nav_frames # <<>>
             /\ nav_frames[PyIdx(nav_frames, cur_frame_idx)].contents = <<>> )
           => ( /\ cur_frame_idx' = cur_frame_idx
                /\ Len(nav_frames') = cur_frame_idx + 1
                /\ nav_frames'[cur_frame_idx' + 1].contents = lastOp'.frame_content
                /\ \A k \in 1..cur_frame_idx :
                      nav_frames'[k].contents = nav_frames[k].contents ) ]_vars

\* a state right after an empty record at index 1 was replaced
C8_Witness ==
    /\ lastOp.op = "nav_forward"
    /\ lastOp.has_content
    /\ lastOp.pre_empty
    /\ lastOp.pre_idx = 1
    /\ cur_frame_idx = 1
    /\ Len(nav_frames) = 2
    /\ nav_frames[2].contents = lastOp.frame_content
    /\ lastOp.frame_content # <<>>

\* C9: nav_back with index > 0 decreases the index by one, keeps the number
\* and order of the records and their frames, and the grid, the pagination
\* and the search text then show the record at the new index.
C9_BackShowsPreviousRecord ==
    [][ (lastOp'.op = "nav_back" /\ cur_frame_idx > 0)
        => ( /\ cur_frame_idx' = cur_frame_idx - 1
             /\ Len(nav_frames') = Len(nav_frames)
             /\ \A k \in 1..Len(nav_frames) :
                   /\ nav_frames'[k].contents = nav_frames[k].contents
                   /\ nav_frames'[k].page_index = nav_frames[k].page_index
                   /\ nav_frames'[k].page_count = nav_frames[k].page_count
                   /\ nav_frames'[k].search_text = nav_frames[k].search_text
             /\ GridShows(item_thumbs', nav_frames[cur_frame_idx].contents)
             /\ pagination' = [count |-> nav_frames[cur_frame_idx].page_count,
                               index |-> nav_frames[cur_frame_idx].page_index]
             /\ search_field' = nav_frames[cur_frame_idx].search_text ) ]_vars

\* a state right after going back to a record whose search text differs from
\* the one of the record that was left
C9_Witness ==
    /\ lastOp.op = "nav_back"
    /\ lastOp.pre_idx > 0
    /\ cur_frame_idx = lastOp.pre_idx - 1
    /\ search_field = nav_frames[cur_frame_idx + 1].search_text
    /\ nav_frames[cur_frame_idx + 2].search_text # search_field
    /\ nav_frames[cur_frame_idx + 1].contents # <<>>

\* C10: nav_forward without content at the tail of the history (also the
\* empty history, index -1) and nav_back at index <= 0 change neither the
\* history nor the index and do not call update_thumbs.
C10_NoOpNavigationIgnored ==
    [][ ( \/ ( /\ lastOp'.op = "nav_forward"
               /\ ~lastOp'.has_content
               /\ cur_frame_idx = Len(nav_frames) - 1 )
          \/ ( lastOp'.op = "nav_back" /\ cur_frame_idx <= 0 ) )
        => ( /\ nav_frames' = nav_frames
             /\ cur_frame_idx' = cur_frame_idx
             /\ ~lastOp'.redrawn
             /\ UNCHANGED thumbVars ) ]_vars

\* a state right after nav_forward without content at the tail of a non-empty
\* history
C10_Witness ==
    /\ lastOp.op = "nav_forward"
    /\ ~lastOp.has_content
    /\ lastOp.pre_len > 0
    /\ lastOp.pre_idx = lastOp.pre_len - 1
    /\ cur_frame_idx = lastOp.pre_idx
    /\ ~lastOp.redrawn


(***************************************************************************)
(* C11 (as stated): filter_items(q) with q equal to the query of the       *)
(* previous filter_items call leaves the history length and the current    *)
(* index unchanged, the current record becoming page 0 of q; with a        *)
(* different q the history gets a new last record holding page 0 of q.     *)
(***************************************************************************)
C11_SameQueryReplacesInPlace ==
    [][ (lastOp'.op = "filter_items" /\ lastOp'.prev_query # "none") =>
          IF lastOp'.prev_query = "=" \o lastOp'.query
          THEN /\ Len(nav_frames') = Len(nav_frames)
               /\ cur_frame_idx' = cur_frame_idx
               /\ nav_frames'[cur_frame_idx' + 1].contents = lastOp'.frame_content
          ELSE /\ nav_frames'[cur_frame_idx' + 1].contents = lastOp'.frame_content
               /\ nav_frames'[cur_frame_idx' + 1].scrollbar_pos = 0
               /\ cur_frame_idx' + 1 = Len(nav_frames') ]_vars

(***************************************************************************)
(* C11 (amended): filter_items(q) navigates forward to page 0 of q in the  *)
(* same way whether or not q is the previous query: an empty current       *)
(* record is replaced in place (length and index unchanged), otherwise a   *)
(* record is added right after the current one and becomes current.        *)
(***************************************************************************)
C11_FilterAlwaysNavigatesForward ==
    [][ lastOp'.op = "filter_items" =>
          /\ nav_frames'[cur_frame_idx' + 1].contents = lastOp'.frame_content
          /\ nav_frames'[cur_frame_idx' + 1].page_index = 0
          /\ lastOp'.frame_content =
                (IF entries = <<>> THEN <<>>
                 ELSE SubSeq(search_library(lastOp'.query), 1,
                             Min(Len(entries), MaxResults)))
          /\ IF lastOp'.pre_empty
             THEN /\ Len(nav_frames') = Len(nav_frames)
                  /\ cur_frame_idx' = cur_frame_idx
             ELSE /\ Len(nav_frames') = cur_frame_idx + 2
                  /\ cur_frame_idx' = cur_frame_idx + 1 ]_vars

\* an unchanged query has just added a record
C11_Witness ==
    /\ lastOp.op = "filter_items"
    /\ lastOp.prev_query = "=" \o lastOp.query
    /\ ~lastOp.pre_empty
    /\ Len(nav_frames) = lastOp.pre_len + 1
    /\ cur_frame_idx = lastOp.pre_idx + 1

(***************************************************************************)
(* C12: a plain click on x makes the selection exactly [x]; a ctrl-click   *)
(* on x makes x selected iff it was not selected before and leaves the     *)
(* membership of every other item unchanged.                               *)
(***************************************************************************)
C12_PlainAndCtrlClick ==
    [][ lastOp'.op = "select_item" =>
          LET x == <<"ENTRY", lastOp'.tag_id>>
              others == ({selected[k] : k \in 1..Len(selected)} \cup
                         {selected'[k] : k \in 1..Len(selected')}) \ {x}
          IN  /\ lastOp'.click = "plain" => selected' = << x >>
              /\ lastOp'.click = "ctrl" =>
                    /\ In(x, selected') <=> ~In(x, selected)
                    /\ \A y \in others : In(y, selected') <=> In(y, selected) ]_vars

\* a ctrl-click has just taken one item out of a selection of several
C12_Witness ==
    /\ lastOp.op = "select_item"
    /\ lastOp.click = "ctrl"
    /\ ~In(<<"ENTRY", lastOp.tag_id>>, selected)
    /\ selected # <<>>

(***************************************************************************)
(* C13: a shift-click on y while the last-selected item a and y are both   *)
(* in the current frame selects every item of the frame between a and y    *)
(* inclusive, keeps what was selected, and appends the newly selected      *)
(* items in the order going from a towards y.                              *)
(***************************************************************************)
\* position in the frame of the item (type, id), 0 when it is not there
FramePos(contents, item) ==
    IF \E k \in 1..Len(contents) : <<contents[k][1], contents[k][2]>> = item
    THEN CHOOSE k \in 1..Len(contents) : <<contents[k][1], contents[k][2]>> = item
    ELSE 0
\* the items of the frame from position pa to position py, in that direction
RunFromTo(contents, pa, py) ==
    IF pa <= py
    THEN [k \in 1..(py - pa + 1) |->
            <<contents[pa + k - 1][1], contents[pa + k - 1][2]>>]
    ELSE [k \in 1..(pa - py + 1) |->
            <<contents[pa - k + 1][1], contents[pa - k + 1][2]>>]

C13_ShiftClickSelectsRun ==
    [][ (lastOp'.op = "select_item" /\ lastOp'.click = "shift") =>
          LET contents == nav_frames[PyIdx(nav_frames, cur_frame_idx)].contents
              pa == FramePos(contents, selected[Len(selected)])
              py == FramePos(contents, <<"ENTRY", lastOp'.tag_id>>)
              run == RunFromTo(contents, pa, py)
              IsNew(e) == ~In(e, selected)
          IN  (pa > 0 /\ py > 0) =>
                 selected' = selected \o SelectSeq(run, IsNew) ]_vars

(***************************************************************************)
(* C14: after any sequence of update_libs_list calls with increasing       *)
(* timestamps the list holds at most 5 entries with distinct paths, the    *)
(* path just opened is first, a path already listed moves to the front     *)
(* without adding an entry, and only the 5 latest distinct paths remain.   *)
(***************************************************************************)
\* the paths of the list, most recent key first
RecentPaths(d) ==
    LET items == SortedItemsDesc(d) IN [i \in 1..Len(items) |-> items[i][2]]

C14_RecentLibsList ==
    [][ lastOp'.op = "update_libs_list" =>
          LET before == RecentPaths(libs_list)
              after == RecentPaths(libs_list')
          IN  /\ Len(after) <= 5
              /\ Cardinality({after[i] : i \in 1..Len(after)}) = Len(after)
              /\ after = PyPrefix(<< lastOp'.path >> \o Without(before, lastOp'.path), 5)
      ]_vars

\* a sixth distinct path has pushed the oldest one out
C14_Witness ==
    /\ lastOp.op = "update_libs_list"
    /\ now = 6
    /\ Cardinality(DOMAIN libs_list) = 5
    /\ \A k \in DOMAIN libs_list : libs_list[k] # 1
    /\ RecentPaths(libs_list) = << 6, 5, 4, 3, 2 >>

\* the file of the scanned tree an Entry row stands for
FileOf(row) == CHOOSE f \in ScanFiles : f.rel = row.path

\* C17: a directory scan creates no Entry for a file under the library
\* folder, the recycle bin or the thumbnail cache, nor for a file whose
\* extension, in lower case, is one of json, xmp and aae.
C17_ScanSkipsExcludedFiles ==
    /\ \A k \in 1..Len(db_entries) :
          /\ FileOf(db_entries[k]).under = ""
          /\ FileOf(db_entries[k]).ext \notin {"json", "xmp", "aae"}

C17_Witness ==
    /\ lastOp.op = "refresh_dir_step"
    /\ lastOp.file = "b.JSON"
    /\ scan.todo = {}
    /\ Len(db_entries) = 2

\* C15: when Library.open_library reports failure, QtDriver.open_library
\* leaves the driver as it was: the loaded library, the recent-libraries
\* list, the navigation history and index, the selection and the window
\* title are unchanged.
C15_FailedOpenLeavesState ==
    [][(lastOp'.op = "open_library" /\ lastOp'.outcome = "failed") =>
          UNCHANGED <<lib_root_path, engine, schema_files, db_entries, tags,
                      next_tag_id, tag_id_to_index_map, tag_id_to_cluster_map,
                      libs_list, nav_frames, cur_frame_idx, selected,
                      window_title>>]_vars

\* number of rows of the tag table that carry the name
TagRows(rows, name) ==
    Cardinality({k \in 1..Len(rows) : rows[k].name = name})

\* C16: a library created at a root keeps exactly one Archived and one
\* Favorite default tag however often the root is opened afterwards: an open
\* finds the schema file under the library folder and does not create again.
C16_DefaultsSeededOnce ==
    \A f \in DOMAIN schema_files :
        f[2] = "ts" =>
            /\ TagRows(schema_files[f].tags, "Archived") = 1
            /\ TagRows(schema_files[f].tags, "Favorite") = 1

\* the fields of the stored entry entry_id
FieldsOf(rows, entry_id) == get_entry(rows, entry_id).fields

TagUnion(rows, entry_ids, field_id) ==
    UNION { UNION { {f[i].content[j] : j \in 1..Len(f[i].content)} :
                    i \in {n \in 1..Len(f) : f[n].id = field_id} } :
            f \in {FieldsOf(rows, entry_ids[k]) : k \in 1..Len(entry_ids)} }

\* C19: after mirror_entry_fields every listed entry holds the same field
\* list, in which a tag-box id occurs once and holds, without duplicates,
\* the union of that id's tag boxes over the listed entries, and whose ids
\* follow the canonical order; mirroring again changes nothing.
C19_MirrorEntryFields ==
    [][lastOp'.op = "mirror_entry_fields" =>
          LET ids == lastOp'.entry_ids
              L == FieldsOf(db_entries', ids[1])
          IN  /\ \A k \in 1..Len(ids) : FieldsOf(db_entries', ids[k]) = L
              /\ \A t \in TagBoxIds :
                    LET at == {n \in 1..Len(L) : L[n].id = t}
                    IN  /\ Cardinality(at) <= 1
                        /\ \A n \in at :
                              /\ {L[n].content[j] : j \in 1..Len(L[n].content)}
                                    = TagUnion(db_entries, ids, t)
                              /\ Len(L[n].content)
                                    = Cardinality(TagUnion(db_entries, ids, t))
                        /\ TagUnion(db_entries, ids, t) # {} => at # {}
              /\ \A a, b \in 1..Len(L) :
                    a < b => ListIndex(mirror_order, L[a].id)
                                 <= ListIndex(mirror_order, L[b].id)
              /\ (lastOp.op = "mirror_entry_fields" /\ lastOp.entry_ids = ids)
                    => db_entries' = db_entries]_vars

\* the items of c that F does not hold, each once, in the order of c
RECURSIVE NewItems(_, _)
NewItems(F, c) ==
    IF c = <<>> THEN <<>>
    ELSE IF In(Head(c), F) THEN NewItems(F, Tail(c))
         ELSE << Head(c) >> \o NewItems(Append(F, Head(c)), Tail(c))
\* F without the items of c
RECURSIVE RemoveItems(_, _)
RemoveItems(F, c) ==
    IF c = <<>> THEN F ELSE RemoveItems(ListRemove(F, Head(c)), Tail(c))

\* C20: update_entry_field on a field holding the list F with the content
\* list c gives F followed by the items of c it did not hold (append,
\* extend), c (replace) or F without the items of c (remove), and leaves the
\* entry's other fields as they were.
C20_UpdateEntryFieldModes ==
    [][(lastOp'.op = "update_entry_field" /\ lastOp'.outcome = "") =>
          LET old == FieldsOf(db_entries, lastOp'.entry_id)
              new == FieldsOf(db_entries', lastOp'.entry_id)
              pos == PyIdx(old, lastOp'.field_index)
              F == old[pos].content
              c == lastOp'.content
          IN  /\ Len(new) = Len(old)
              /\ \A n \in 1..Len(old) : n # pos => new[n] = old[n]
              /\ new[pos].id = old[pos].id
              /\ new[pos].content =
                    CASE lastOp'.mode \in {"append", "extend"} -> F \o NewItems(F, c)
                      [] lastOp'.mode = "replace" -> c
                      [] OTHER -> RemoveItems(F, c)]_vars

\* the tag ids reachable from the ids in S through subtag links, S included
RECURSIVE Descendants(_, _)
Descendants(rows, S) ==
    LET step == S \cup UNION { rows[k].subtags : k \in S }
    IN  IF step = S THEN S ELSE Descendants(rows, step)
\* a cycle of subtag links can be reached from tag t
CycleReachable(rows, t) ==
    \E k \in Descendants(rows, {t}) : k \in Descendants(rows, rows[k].subtags)
\* a call of get_all_child_tag_ids on a tag of the store is the last thing
\* that happened
InChildWalk ==
    /\ lastOp.op = "get_all_child_tag_ids"
    /\ walk.start \in 1..Len(db_tags)

C22_SurplusCellsCleared ==
    (lastOp.redrawn /\ nav_frames # <<>>) =>
        LET contents == nav_frames[PyIdx(nav_frames, cur_frame_idx)].contents
        IN  \A i \in 1..MaxResults :
               IF i > Len(contents)
               THEN /\ item_thumbs[i].mode = "NONE"
                    /\ item_thumbs[i].item_id = -1
                    /\ ~item_thumbs[i].selected
               ELSE /\ item_thumbs[i].mode = contents[i][1]
                    /\ item_thumbs[i].item_id = contents[i][2]

\* C25: with a non-empty history refresh_frame puts the given content in the
\* record at the current index and leaves the length of the history, the
\* current index, every other record and the current record's page index
\* and page count as they were.
C25_RefreshInPlace ==
    [][(lastOp'.op = "refresh_frame" /\ nav_frames # <<>>) =>
          LET pos == PyIdx(nav_frames, cur_frame_idx)
          IN  /\ Len(nav_frames') = Len(nav_frames)
              /\ cur_frame_idx' = cur_frame_idx
              /\ \A k \in 1..Len(nav_frames) :
                    k # pos => nav_frames'[k] = nav_frames[k]
              /\ nav_frames'[pos].contents = lastOp'.frame_content
              /\ nav_frames'[pos].page_index = nav_frames[pos].page_index
              /\ nav_frames'[pos].page_count = nav_frames[pos].page_count]_vars
\* refresh_frame has just replaced the one-item content of the first of
\* three records, one that sits on page 1 of 2, by the empty frame
C25_Witness ==
    /\ lastOp.op = "refresh_frame"
    /\ lastOp.outcome = ""
    /\ lastOp.pre_len = 3
    /\ cur_frame_idx = 0
    /\ nav_frames[1].contents = <<>>
    /\ nav_frames[1].page_index = 1
    /\ nav_frames[1].page_count = 2
    /\ nav_frames[2].contents # <<>>

\* C23: after create_collage on a library with n >= 1 entries, whatever the
\* workers and the other GUI actions (grid refreshes among them) do, all n
\* render jobs are eventually run and the canvas is written, exactly once
\* and not before the n-th completion.
C23_CollageSavedOnce ==
    /\ [](/\ collage.saved <= collage.calls
          /\ (lastOp.op = "try_save_collage" /\ collage.canvas = "none") =>
                collage.completed = Len(entries))
    /\ (lastOp.op = "create_collage" /\ Len(entries) >= 1)
          ~> (collage.completed = Len(entries) /\ collage.saved = collage.calls)

\* the bitmap a render call emitted and the ratio it reported
EmittedBitmap(e) == e[Len(e)].bitmap
ReportsRatioOne(e) ==
    /\ Len(e) = 2
    /\ e[1].signal = "updated_ratio"
    /\ e[1].size[1] = e[1].size[2]
\* the last operation rendered, not as a loading placeholder, a path that
\* names no existing file
RenderedMissingFile ==
    /\ lastOp.op = "render"
    /\ ~lastOp.args.is_loading
    /\ ~lastOp.args.exists

\* C24 as stated: every non-loading render call on a path that names no
\* existing file emits the broken placeholder, whatever the class of the
\* path's extension, and reports aspect ratio 1 when a ratio update was
\* requested.
C24_MissingFileAlwaysBroken ==
    RenderedMissingFile =>
        /\ EmittedBitmap(lastOp.emitted) = "thumb_broken"
        /\ lastOp.args.update_on_ratio_change => ReportsRatioOne(lastOp.emitted)

\* C24 amended: a non-loading render call on a non-empty path that names no
\* existing file emits the broken placeholder when the path's extension is
\* an image, raw image, video or plain text extension, and the generic-file
\* placeholder when it is any other extension; in both cases it reports
\* aspect ratio 1 when a ratio update was requested.
C24_MissingFileFallback ==
    (RenderedMissingFile /\ lastOp.args.filepath # "") =>
        /\ EmittedBitmap(lastOp.emitted) =
              IF Extension(lastOp.args.filepath) \in
                    (IMAGE_TYPES \cup RAW_IMAGE_TYPES \cup VIDEO_TYPES
                       \cup PLAINTEXT_TYPES)
              THEN "thumb_broken" ELSE "thumb_file_default"
        /\ lastOp.args.update_on_ratio_change => ReportsRatioOne(lastOp.emitted)
\* a missing video was rendered with a ratio update requested
C24_Witness ==
    /\ RenderedMissingFile
    /\ lastOp.args.filepath = "c.mp4"
    /\ lastOp.args.update_on_ratio_change
    /\ EmittedBitmap(lastOp.emitted) = "thumb_broken"

\* C26: after any sequence of add_tag_to_library and remove_tag the ids of
\* the tags in Library.tags are pairwise distinct, were handed out
\* increasing from 1000 and are never handed out again, the keys of the
\* id-to-index map are exactly these ids, and the map sends each id to the
\* position of its tag, so that get_tag(id) returns the tag with that id.
C26_TagIndexConsistent ==
    /\ \A j, k \in 1..Len(tags) : j < k => tags[j].id < tags[k].id
    /\ \A k \in 1..Len(tags) : tags[k].id \in FirstTagId..(next_tag_id - 1)
    /\ DOMAIN tag_id_to_index_map = TagIdsInLibrary
    /\ \A k \in 1..Len(tags) : tag_id_to_index_map[tags[k].id] = k - 1
    /\ \A id \in TagIdsInLibrary : Retrievable(id)
\* the first tag was removed and a tag added afterwards: ids 1001 and 1002
\* sit at positions 0 and 1
C26_Witness ==
    /\ lastOp.op = "add_tag"
    /\ Len(tags) = 2
    /\ tags[1].id = FirstTagId + 1
    /\ tags[2].id = FirstTagId + 2
    /\ next_tag_id = FirstTagId + 3

\* C27: starting from a store in which no two entries share a relative
\* path, after any interleaving of refresh_dir scans, running one after the
\* other or at the same time, no two entries share a relative path; and a
\* scan of a tree whose files all have their entry adds no entry.
C27_OneEntryPerPath ==
    /\ [](\A j, k \in 1..Len(db_entries) :
             j # k => db_entries[j].path # db_entries[k].path)
    /\ [][lastOp'.op = "scanner_insert" => ~lastOp'.again]_vars

\* C28: after any sequence of open_library, close_library, filter_items,
\* nav_forward (with or without content) and nav_back, cur_frame_idx is -1
\* exactly when nav_frames is empty and otherwise 0 <= cur_frame_idx <
\* len(nav_frames); so every update_thumbs reads an existing record.
C28_IndexInRange ==
    /\ [](/\ (cur_frame_idx = -1) <=> (nav_frames = <<>>)
          /\ nav_frames # <<>> =>
                (0 <= cur_frame_idx /\ cur_frame_idx < Len(nav_frames)))
    /\ [][lastOp'.redrawn => cur_frame_idx' \in 0..(Len(nav_frames') - 1)]_vars

\* an open library was closed: the history was emptied and holds the single
\* record of close_library's search, which update_thumbs has drawn
C28_Witness ==
    /\ lastOp.op = "close_library"
    /\ lastOp.outcome = "closed"
    /\ Len(nav_frames) = 1
    /\ cur_frame_idx = 0

\* C29: for any number of workers and any completion order, once the result
\* of a cell's full-size render job of the latest grid refresh has been
\* applied, no loading-placeholder result (of the same or an earlier
\* refresh) is applied to that cell afterwards, so the cell keeps showing
\* its full-size render.
C29_PlaceholderNeverReplacesRender ==
    [][(/\ lastOp'.op = "deliver"
        /\ lastOp'.applied
        /\ lastOp'.is_loading)
       => ~item_thumbs[lastOp'.cell].full_applied]_vars

\* new is old followed by ids search_tags returns
IsTagAppend(old, new) ==
    /\ Len(new) >= Len(old)
    /\ SubSeq(new, 1, Len(old)) = old
    /\ \A j \in (Len(old) + 1)..Len(new) :
          \E i \in 1..Len(search_tags("")) : new[j] = search_tags("")[i]

====
